---- MODULE Spec2Model ----
(***************************************************************************)
(* A model of loadgen's trace generator (src/sender.go): the controller    *)
(* loop TraceGenerator.Generate, the worker goroutines                      *)
(* TraceGenerator.generator, and the recursive span generation              *)
(* generate_root / generate_spans.                                          *)
(*                                                                          *)
(* Spec       the controller, its workers, the stop channels, the mutex     *)
(*            and the trace-count channel, every interleaving.              *)
(* SpecLive   Spec with the fairness of a worker's ready stop case.         *)
(* SpecTrace  one call of generate_root, stepped through its recursion,     *)
(*            for every outcome of its rand.Intn draws.                     *)
(*                                                                          *)
(* and of its field generators (src/unnamed/part_000): the Rng, the field   *)
(* grammar of parseUserFields and the Fielder.                               *)
(*                                                                          *)
(* SpecParse  one call of parseUserFields on a map of field specs, then     *)
(*            calls of the generators it returned.                          *)
(* SpecFielder  two calls of NewFielder with the same arguments, then       *)
(*            GetFields and AddFields on the Fielders they returned.        *)
(* SpecAttrs  NewFielder with any counts of attributes, then AddFields.     *)
(* SpecRng    Rng.QuadraticChoice over a list, and the periods of          *)
(*            newPeriodicEligibility with calls of getEligibleWordFallback. *)
(***************************************************************************)
EXTENDS Integers, Sequences, FiniteSets, TLC

VARIABLES
    \* ---- controller and workers (Spec) ----
    tps,        \* opts.Quantity.TPS
    duration,   \* s.duration, in milliseconds
    maxTime,    \* opts.Quantity.MaxTime, in milliseconds
    state,      \* Generate's local GeneratorState
    ctrl,       \* where Generate is: "run", "returned", "panicked"
    chans,      \* s.chans: the workers' stop channels (a channel is named by its worker)
    closed,     \* the stop channels that have been closed
    mut,        \* s.mut: 0 when free, otherwise the worker holding it
    wpc,        \* each worker goroutine's position
    stop,       \* TRUE once the global stop channel is closed
    stopTimer,  \* TRUE while stopTimer has not fired yet
    counter,    \* the counter channel's content
    produced,   \* units sent on the counter channel so far
    started,    \* the counts generate_root has been called with
    ntraces,    \* the number of generate_root calls
    ramped,     \* TRUE once Generate has switched to Running
    \* ---- one trace (SpecTrace) ----
    depth,      \* s.depth
    spanCount,  \* s.spanCount
    tpc,        \* where generate_root is: "call", "spans", "done", "panicked"
    rootDur,    \* generate_root's thisSpanDuration
    stack,      \* the generate_spans calls in progress, innermost last
    spans,      \* the spans created so far, in order of creation
    slept,      \* the sum of the time.Sleep calls so far
    \* ---- field generators (SpecParse, SpecFielder) ----
    userFields, \* the map of field specs: name -> value, both strings
    stream,     \* what the seed's rand.Rand yields, draw after draw
    nextras,    \* NewFielder's nextras
    nservices,  \* NewFielder's nservices
    attributesPerSpan,   \* NewFielder's attributesPerSpan
    intrinsicAttributes, \* NewFielder's intrinsicAttributes
    parsed,     \* what parseUserFields returned, <<>> before the call
    fielders,   \* the Fielders built so far, in order of construction
    out,        \* what the last generator, GetFields or AddFields call produced
    calls,      \* the number of calls made on the generators or Fielders
    \* ---- the Rng's choices (SpecRng) ----
    listLen,    \* len(a) of the list QuadraticChoice chooses from
    drawn,      \* the number of draws QuadraticChoice has been called on
    picks,      \* how many of those calls chose each index
    pePeriod,   \* pe.period, newPeriodicEligibility's period
    nwords,     \* len(words) of newPeriodicEligibility
    periods,    \* pe.periods, <<>> before newPeriodicEligibility
    word,       \* what the last getEligibleWord or getEligibleWordFallback call returned
    \* ---- workers drawing random numbers (SpecDraws) ----
    source,     \* the random sources: how many draws each has served
    inCall      \* for each worker, the draw it is making or has made last

cvars == <<tps, duration, maxTime, state, ctrl, chans, closed, mut, wpc, stop,
           stopTimer, counter, produced, started, ntraces, ramped>>

tvars == <<depth, spanCount, tpc, rootDur, stack, spans, slept>>

fvars == <<userFields, stream, nextras, nservices, attributesPerSpan,
           intrinsicAttributes, parsed, fielders, out, calls>>

rvars == <<listLen, drawn, picks, pePeriod, nwords, periods, word>>

svars == <<source, inCall>>

vars == <<cvars, tvars, fvars, rvars, svars>>

\* ------------------------------------------------------------------ bounds

\* Worker goroutines the model lets Generate start (go s.generator is unbounded).
MaxWorkers == 2
\* Largest opts.Quantity.TPS tried.
MaxTPS == 2
\* Units the model lets the producer send on the counter channel.
MaxTraces == 2
\* Trace durations tried, in milliseconds; on each of them, with the TPS values
\* tried, Generate's float64 quotient rounds to the exact value of
\* tps * duration, so ngenerators is modelled as that fraction.
Durations == {250, 750, 1000}
\* Maximum runtimes tried, in milliseconds: 0 at one trace per second with
\* traces of one second, one minute at every rate and duration.
MaxTimes == {0, 60000}

Workers == 1..MaxWorkers

Range(s) == {s[i] : i \in DOMAIN s}

Abs(a) == IF a < 0 THEN -a ELSE a

\* ------------------------------------------------------- controller: Generate

\* TPS(): 1.0 / s.duration.Seconds(), as the pair numerator/denominator.
TPS == <<1000, duration>>

\* ngenerators := float64(opts.Quantity.TPS) / s.TPS(), as a pair num/den.
ngenerators == <<tps * TPS[2], TPS[1]>>

\* Variant: the conversion without the +0.5, int(ngenerators).
TargetTruncated == ngenerators[1] \div ngenerators[2]

\* int(ngenerators+0.5): Go's float-to-int conversion truncates, and ngenerators
\* is not negative.
Target == (2 * ngenerators[1] + ngenerators[2]) \div (2 * ngenerators[2])

\* Workers started so far: goroutines are numbered in the order of their go statement.
Spawned == {w \in Workers : wpc[w] # "none"}
NumSpawned == Cardinality(Spawned)

\* wg's counter: Generate's own Add(1) by the caller, one Add(1) per worker,
\* a Done per return.
WaitGroup == (IF ctrl = "run" THEN 1 ELSE 0)
             + Cardinality({w \in Workers : wpc[w] \notin {"none", "done"}})

\* No generate_root call is being stepped through.
TraceIdle ==
    /\ depth = 0
    /\ spanCount = 0
    /\ tpc = "off"
    /\ rootDur = 0
    /\ stack = <<>>
    /\ spans = <<>>
    /\ slept = 0

\* No worker is drawing from a random source.
DrawsIdle ==
    /\ source = <<>>
    /\ inCall = <<>>

\* No list is being chosen from and no eligibility exists.
RngIdle ==
    /\ listLen = 0
    /\ drawn = 0
    /\ picks = <<>>
    /\ pePeriod = 0
    /\ nwords = 0
    /\ periods = <<>>
    /\ word = <<>>

\* No field spec is being parsed and no Fielder exists.
FielderIdle ==
    /\ userFields = <<>>
    /\ stream = <<>>
    /\ nextras = 0
    /\ nservices = 0
    /\ attributesPerSpan = 0
    /\ intrinsicAttributes = 0
    /\ parsed = <<>>
    /\ fielders = <<>>
    /\ out = <<>>
    /\ calls = 0

Init ==
    /\ tps \in 1..MaxTPS
    /\ duration \in Durations
    /\ maxTime \in MaxTimes
    /\ maxTime = 0 => (tps = 1 /\ duration = 1000)
    /\ state = "Starting"
    /\ ctrl = "run"
    /\ chans = <<>>
    /\ closed = {}
    /\ mut = 0
    /\ wpc = [w \in Workers |-> "none"]
    /\ stop = FALSE
    /\ stopTimer = TRUE
    /\ counter = <<>>
    /\ produced = 0
    /\ started = {}
    /\ ntraces = 0
    /\ ramped = FALSE
    /\ TraceIdle
    /\ FielderIdle
    /\ RngIdle
    /\ DrawsIdle

\* Another goroutine closes the global stop channel (main's signal handler).
ExternalStop ==
    /\ ~stop
    /\ stop' = TRUE
    /\ UNCHANGED <<svars, rvars, fvars, tvars, tps, duration, maxTime, state, ctrl, chans, closed, mut, wpc,
                   stopTimer, counter, produced, started, ntraces, ramped>>

\* The producer of the trace-count budget sends the next count.
SendCount ==
    /\ produced < MaxTraces
    /\ produced' = produced + 1
    /\ counter' = Append(counter, produced + 1)
    /\ UNCHANGED <<svars, rvars, fvars, tvars, tps, duration, maxTime, state, ctrl, chans, closed, mut, wpc, stop,
                   stopTimer, started, ntraces, ramped>>

\* Variant: the state is left as it was.
StateKept(st) == st

\* state = Stopping, in case <-stop and in case <-stopTimer.C.
ToStopping(st) == "Stopping"

\* case <-stop: close every listed channel under the mutex and return.
\* Closing a closed channel panics.
GenerateStop ==
    /\ ctrl = "run"
    /\ stop
    /\ mut = 0
    /\ state' = ToStopping(state)
    /\ IF Range(chans) \cap closed # {}
         THEN ctrl' = "panicked" /\ closed' = closed
         ELSE ctrl' = "returned" /\ closed' = closed \cup Range(chans)
    /\ UNCHANGED <<svars, rvars, fvars, tvars, tps, duration, maxTime, chans, mut, wpc, stop, stopTimer, counter,
                   produced, started, ntraces, ramped>>

\* The Starting tick's spawn: wg.Add(1); go s.generator(wg, counter).
SpawnTo(n) == [wpc EXCEPT ![n] = "spawned"]

\* The Starting tick's test, on the length read without the mutex:
\* len(s.chans) >= int(ngenerators+0.5).
RampDone(len) == len >= Target

\* case <-ticker.C, state Starting.
TickStarting ==
    /\ ctrl = "run"
    /\ state = "Starting"
    /\ IF RampDone(Len(chans))
         THEN /\ state' = "Running"
              /\ ramped' = TRUE
              /\ wpc' = wpc
         ELSE /\ NumSpawned < MaxWorkers
              /\ wpc' = SpawnTo(NumSpawned + 1)
              /\ UNCHANGED <<state, ramped>>
    /\ UNCHANGED <<svars, rvars, fvars, tvars, tps, duration, maxTime, ctrl, chans, closed, mut, stop, stopTimer,
                   counter, produced, started, ntraces>>

\* case <-ticker.C, state Running: nothing.
TickRunning ==
    /\ ctrl = "run"
    /\ state = "Running"
    /\ UNCHANGED vars

\* Variant: a tick that signals every listed worker.
SignalledAll(ch) == {ch[i] : i \in DOMAIN ch}

\* close(s.chans[0]): the channels a Stopping tick closes.
Signalled(ch) == {ch[1]}

\* case <-ticker.C, state Stopping: close(stop) and return when the list is
\* empty, otherwise close and drop the first channel; all under the mutex.
TickStopping ==
    /\ ctrl = "run"
    /\ state = "Stopping"
    /\ mut = 0
    /\ IF Len(chans) = 0
         THEN /\ IF stop
                   THEN ctrl' = "panicked" /\ stop' = stop
                   ELSE ctrl' = "returned" /\ stop' = TRUE
              /\ UNCHANGED <<chans, closed>>
         ELSE /\ IF Signalled(chans) \cap closed # {}
                   THEN ctrl' = "panicked" /\ UNCHANGED <<chans, closed>>
                   ELSE /\ closed' = closed \cup Signalled(chans)
                        /\ chans' = Tail(chans)
                        /\ ctrl' = ctrl
              /\ stop' = stop
    /\ UNCHANGED <<svars, rvars, fvars, tvars, tps, duration, maxTime, state, mut, wpc, stopTimer, counter,
                   produced, started, ntraces, ramped>>

\* case <-stopTimer.C: stopTimer := time.NewTimer(opts.Quantity.MaxTime) fires
\* once MaxTime has passed since Generate began, at once when it is 0. The
\* model keeps no clock: any time may have passed.
TimerFires ==
    /\ ctrl = "run"
    /\ stopTimer
    /\ stopTimer' = FALSE
    /\ state' = ToStopping(state)
    /\ UNCHANGED <<svars, rvars, fvars, tvars, tps, duration, maxTime, ctrl, chans, closed, mut, wpc, stop,
                   counter, produced, started, ntraces, ramped>>

\* ------------------------------------------------------- worker: generator

\* s.mut.Lock() at the top of generator.
WorkerLock(w) ==
    /\ wpc[w] = "spawned"
    /\ mut = 0
    /\ mut' = w
    /\ wpc' = [wpc EXCEPT ![w] = "locked"]
    /\ UNCHANGED <<svars, rvars, fvars, tvars, tps, duration, maxTime, state, ctrl, chans, closed, stop, stopTimer,
                   counter, produced, started, ntraces, ramped>>

\* stop := make(chan struct{}); s.chans = append(s.chans, stop); s.mut.Unlock().
WorkerRegister(w) ==
    /\ wpc[w] = "locked"
    /\ chans' = Append(chans, w)
    /\ mut' = 0
    /\ wpc' = [wpc EXCEPT ![w] = "select"]
    /\ UNCHANGED <<svars, rvars, fvars, tvars, tps, duration, maxTime, state, ctrl, closed, stop, stopTimer,
                   counter, produced, started, ntraces, ramped>>

\* Variant: the stop channel is also watched inside generate_root.
AtSelectOrInTrace(pc) == pc \in {"select", "generate_root"}

\* The worker is at the select of its loop, the only place it reads stop.
AtSelect(pc) == pc = "select"

\* case <-stop: ticker.Stop(); return (and the deferred wg.Done()).
WorkerStop(w) ==
    /\ AtSelect(wpc[w])
    /\ w \in closed
    /\ wpc' = [wpc EXCEPT ![w] = "done"]
    /\ UNCHANGED <<svars, rvars, fvars, tvars, tps, duration, maxTime, state, ctrl, chans, closed, mut, stop,
                   stopTimer, counter, produced, started, ntraces, ramped>>

\* Variant: a receive that leaves the unit in the channel.
ReceiveKeeps(ch) == ch

\* count := <-counter: the receive takes the unit out of the channel.
AfterReceive(ch) == Tail(ch)

\* Variant: without a default the worker waits in the receive.
AfterDefaultBlocks(pc) == "receive"

\* default: nothing is done and the loop is back at the outer select.
AfterDefault(pc) == "select"

\* case <-ticker.C: the inner select receives a count and calls generate_root,
\* or takes its default and does nothing.
WorkerTick(w) ==
    /\ wpc[w] = "select"
    /\ IF Len(counter) > 0
         THEN /\ counter' = AfterReceive(counter)
              /\ started' = started \cup {Head(counter)}
              /\ ntraces' = ntraces + 1
              /\ wpc' = [wpc EXCEPT ![w] = "generate_root"]
         ELSE /\ wpc' = [wpc EXCEPT ![w] = AfterDefault(wpc[w])]
              /\ UNCHANGED <<counter, started, ntraces>>
    /\ UNCHANGED <<svars, rvars, fvars, tvars, tps, duration, maxTime, state, ctrl, chans, closed, mut, stop,
                   stopTimer, produced, ramped>>

\* generate_root returns; back to the outer select.
WorkerTraceDone(w) ==
    /\ wpc[w] = "generate_root"
    /\ wpc' = [wpc EXCEPT ![w] = "select"]
    /\ UNCHANGED <<svars, rvars, fvars, tvars, tps, duration, maxTime, state, ctrl, chans, closed, mut, stop,
                   stopTimer, counter, produced, started, ntraces, ramped>>

Next ==
    \/ ExternalStop
    \/ SendCount
    \/ GenerateStop
    \/ TickStarting
    \/ TickRunning
    \/ TickStopping
    \/ TimerFires
    \/ \E w \in Workers : WorkerLock(w)
    \/ \E w \in Workers : WorkerRegister(w)
    \/ \E w \in Workers : WorkerStop(w)
    \/ \E w \in Workers : WorkerTick(w)
    \/ \E w \in Workers : WorkerTraceDone(w)

Spec == Init /\ [][Next]_vars

\* The Go runtime runs a goroutine that waits in a select with a case that
\* stays ready: a worker that rests at its select with its stop channel
\* closed does not rest there for ever.
SpecLive == Init /\ [][Next]_vars /\ \A w \in Workers : WF_vars(WorkerStop(w))

\* ------------------------------------------ claims on the controller (Spec)

\* |tps * duration - n| <= 1/2, with duration in milliseconds: n is a nearest
\* integer to targetTPS x traceDuration.
Nearest(n) == 2 * Abs(tps * duration - 1000 * n) <= 1000

\* The channels a Stopping tick has closed and taken off the list.
Removed == closed \ Range(chans)

\* C1: during Starting each controller tick spawns at most one worker, and the
\* number of workers ever spawned never exceeds the target worker count
\* int(ngenerators+0.5), whatever the interleaving of ticks and registrations.
C1_SpawnedWithinTarget ==
    /\ [](NumSpawned <= Target)
    /\ [][NumSpawned' <= NumSpawned + 1]_vars

\* C2: the target worker count is targetTPS x traceDuration rounded to the
\* nearest integer; a Starting tick that reads a live count of at least the
\* target switches to Running and spawns nothing, a Starting tick that reads
\* less stays in Starting, and Running is entered in no other way.
C2_TargetAndRampDone ==
    /\ [](ctrl # "off" => Nearest(Target))
    /\ [][(TickStarting /\ Len(chans) >= Target)
            => (state' = "Running" /\ wpc' = wpc)]_vars
    /\ [][(TickStarting /\ Len(chans) < Target) => state' = "Starting"]_vars
    /\ [][(state # "Running" /\ state' = "Running")
            => (state = "Starting" /\ Len(chans) >= Target /\ wpc' = wpc)]_vars

\* C2's case: ramp-up is complete for 2 TPS of 750 ms traces (1.5, rounded to 2).
C2_Witness ==
    /\ state = "Running"
    /\ tps * duration = 1500
    /\ Len(chans) = 2

\* C3: with target worker count N, startup brings the live worker count from 0
\* to N in N ticks (N spawning ticks, N workers listed when Running is
\* entered), and shutdown brings it from N back to 0 in N ticks (once Generate
\* has returned after a completed ramp-up, N channels were closed one per tick
\* and the list is empty).
C3_RampSymmetry ==
    /\ state = "Running" => (NumSpawned = Target /\ Len(chans) = Target)
    /\ (ctrl = "returned" /\ ramped)
         => (Cardinality(Removed) = Target /\ Len(chans) = 0)

\* C4: after the global stop signal is closed every worker ever spawned
\* eventually exits. Nothing closes a stop channel once Generate has returned,
\* so from then on a worker that has not exited must have its stop channel
\* closed already.
C4_EveryWorkerExits ==
    (ctrl = "returned" /\ stop)
        => \A w \in Spawned : wpc[w] = "done" \/ w \in closed

\* C5: every trace follows a receive of one unit of the budget: the traces
\* started never outnumber the units sent, no unit starts two traces, and a
\* unit that started a trace is no longer in the channel.
C5_OneUnitPerTrace ==
    /\ ntraces <= produced
    /\ Cardinality(started) = ntraces
    /\ started \subseteq 1..produced
    /\ started \cap Range(counter) = {}

\* C5's case: two workers are generating a trace each, from two units.
C5_Witness ==
    /\ ntraces = 2
    /\ \A w \in 1..2 : wpc[w] = "generate_root"

\* C24: with a maximum runtime of 0 there is no limit: the timer of the
\* maximum runtime never fires, and the controller is in Stopping only once
\* the global stop channel has been closed.
C24_RuntimeZeroNoLimit ==
    (ctrl # "off" /\ maxTime = 0)
        => /\ stopTimer
           /\ state = "Stopping" => stop

\* C25: the state of the controller only moves forward: once Running it is
\* never Starting again, once Stopping it stays Stopping, and Generate has
\* returned only from Stopping.
C25_StateMovesForward ==
    /\ [][state = "Running" => state' # "Starting"]_vars
    /\ [][state = "Stopping" => state' = "Stopping"]_vars
    /\ [](ctrl = "returned" => state = "Stopping")

\* C25's case: Generate has returned after a completed ramp-up, from Stopping.
C25_Witness ==
    /\ ctrl = "returned"
    /\ ramped
    /\ state = "Stopping"

\* The workers that have appended their channel to s.chans.
Registered == {w \in Workers : wpc[w] \in {"select", "generate_root", "done"}}

\* C26: a Stopping tick that finds k > 0 listed workers signals exactly the
\* oldest entry, the head of the list that workers append to, which was not
\* signalled before, and removes it, leaving
\* k - 1, without signalling completion or returning; the tick signals
\* completion or returns only when the list is empty and every registered
\* worker has been signalled.
C26_StoppingTick ==
    /\ [][(TickStopping /\ Len(chans) > 0)
             => /\ chans[1] \notin closed
                /\ closed' = closed \cup {chans[1]}
                /\ chans' = Tail(chans)
                /\ Len(chans') = Len(chans) - 1
                /\ stop' = stop
                /\ ctrl' = "run"]_vars
    /\ [][(TickStopping /\ (stop' # stop \/ ctrl' # ctrl))
             => /\ Len(chans) = 0
                /\ Registered \subseteq closed]_vars

\* C26's case: the timer has moved the controller to Stopping with two
\* workers listed and one tick has removed the older one.
C26_Witness ==
    /\ ctrl = "run"
    /\ state = "Stopping"
    /\ ~stop
    /\ chans = <<2>>
    /\ 1 \in closed
    /\ 2 \notin closed

\* C27: no step of the controller signals more than one worker, and once
\* the global stop channel is closed the listed workers still leave the
\* list one at a time.
C27_ControlledCadence ==
    /\ [][Cardinality(closed' \ closed) <= 1]_vars
    /\ [][(stop /\ closed' # closed) => chans' = Tail(chans)]_vars

\* C28: a worker whose stop channel is closed while it is inside
\* generate_root does not come back from the call with the trace completed.
C28_PartialTraceOnStop ==
    [][\A w \in Workers :
          (wpc[w] = "generate_root" /\ w \in closed)
              => wpc'[w] # "select"]_vars

\* C28, amended: generate_root is left only by its return, after the whole
\* trace: a worker inside it, signalled or not, next is back at the select,
\* and a worker exits only from the select with its channel closed.
C28_TraceCompletedOnStop ==
    /\ [][\A w \in Workers :
             wpc[w] = "generate_root"
                 => wpc'[w] \in {"generate_root", "select"}]_vars
    /\ [][\A w \in Workers :
             (wpc'[w] = "done" /\ wpc[w] # "done")
                 => (wpc[w] = "select" /\ w \in closed)]_vars

\* C28's case: the stop channel of worker 1 was closed while the worker was
\* inside generate_root.
C28_Witness ==
    /\ wpc[1] = "generate_root"
    /\ 1 \in closed

\* C29: a worker whose stop channel is closed starts no other trace.
C29_NoTraceAfterStop ==
    [][\A w \in Workers :
          (w \in closed /\ wpc[w] = "select")
              => wpc'[w] # "generate_root"]_vars

\* C30: a registered worker is generating a trace, has exited, or is at its
\* select: it never waits for a unit of the budget. A tick that finds the
\* budget empty leaves it at the select, and a worker at rest whose stop
\* channel is closed can exit at once and does exit unless a tick with a
\* unit of the budget takes it into a trace first.
C30_NeverBlocksOnBudget ==
    /\ [](\A w \in Registered :
             /\ wpc[w] # "generate_root" => wpc[w] \in {"select", "done"}
             /\ (w \in closed /\ wpc[w] \notin {"generate_root", "done"})
                   => ENABLED WorkerStop(w))
    /\ [][\A w \in Workers :
             (WorkerTick(w) /\ counter = <<>>)
                 => (wpc'[w] = "select" /\ ntraces' = ntraces)]_vars
    /\ \A w \in Workers :
          (w \in closed /\ wpc[w] = "select")
              ~> wpc[w] \in {"done", "generate_root"}

\* C30's case: worker 1 rests at its select with its stop channel closed
\* and no unit in the budget, all traces having been handed out.
C30_Witness ==
    /\ wpc[1] = "select"
    /\ 1 \in closed
    /\ counter = <<>>
    /\ produced > 0
    /\ ntraces = produced

\* C39: every read and every write of the worker-signal list happens while
\* the mutex is held: the controller counts, closes and removes entries only
\* when no worker holds the mutex, and a worker appends its channel only
\* while it holds the mutex itself.
C39_ListUnderMutex ==
    [][/\ (TickStarting \/ TickStopping \/ GenerateStop) => mut = 0
       /\ \A w \in Workers : WorkerRegister(w) => mut = w]_vars

\* C40: no channel is closed twice: whatever the order of an external close
\* of the global stop channel and the controller's ticks, Generate never
\* panics on closing a channel that is closed already.
C40_NoChannelClosedTwice == ctrl # "panicked"

\* ------------------------------------------- one trace: generate_root

\* Largest s.depth tried.
MaxDepth == 3
\* Largest s.spanCount tried.
MaxSpanCount == 8
\* Trace durations tried, in the unit of time.Duration.
TraceTimes == {20, 30}

\* Go's integer division truncates toward zero; b is not 0.
GoDiv(a, b) ==
    IF (a >= 0) = (b > 0) THEN Abs(a) \div Abs(b) ELSE -(Abs(a) \div Abs(b))

\* rand.Intn(n) panics unless n > 0 and returns a value of [0, n).
Intn(n) == 0..(n - 1)

\* The controller and the workers are not running.
ControllerIdle ==
    /\ tps = 0
    /\ maxTime = 0
    /\ state = "Starting"
    /\ ctrl = "off"
    /\ chans = <<>>
    /\ closed = {}
    /\ mut = 0
    /\ wpc = [w \in Workers |-> "none"]
    /\ stop = FALSE
    /\ stopTimer = FALSE
    /\ counter = <<>>
    /\ produced = 0
    /\ started = {}
    /\ ntraces = 0
    /\ ramped = FALSE

InitTrace ==
    /\ depth \in 1..MaxDepth
    /\ spanCount \in 1..MaxSpanCount
    /\ duration \in TraceTimes
    /\ tpc = "call"
    /\ rootDur = 0
    /\ stack = <<>>
    /\ spans = <<>>
    /\ slept = 0
    /\ ControllerIdle
    /\ FielderIdle
    /\ RngIdle
    /\ DrawsIdle

\* A span as the Sender creates it: its parent is the span of the context it
\* is created under (tracer.Start(ctx, name)); under is the span the generator
\* was working beneath when it created this one, level the depth of the
\* recursion that created it, sent the number of Send calls on it, count and
\* given the count and the nesting level its creation was called with.
NewSpan(ctx, under, level, args) ==
    [parent |-> ctx, under |-> under, level |-> level, sent |-> 0,
     count |-> args.count, given |-> args.level]

\* The count generate_root is called with, a unit of the trace budget.
RootCount == 7

\* s.tracer.CreateTrace(ctx, "root", s.fielder, count): the trace's count,
\* and the level 0 that CreateTrace stands for.
CreateTraceArgs == [count |-> RootCount, level |-> <<0>>]

\* s.tracer.CreateSpan(ctx, "child", s.fielder): neither a count nor a
\* nesting level is handed over; the senders fill in the count 0.
CreateSpanArgs == [count |-> 0, level |-> <<>>]

\* A call generate_spans(ctx, depth, spancount, timeRemaining), at its first line.
Call(ctx, d, sc, t) ==
    [pc |-> "entry", ctx |-> ctx, depth |-> d, spancount |-> sc,
     timeRemaining |-> t, nspans |-> 0, i |-> 0, durationRemaining |-> 0,
     durationPerChild |-> 0, durationThisSpan |-> 0, span |-> 0]

Top == stack[Len(stack)]
Pop == SubSeq(stack, 1, Len(stack) - 1)
SetTop(f) == [stack EXCEPT ![Len(stack)] = f]

\* The span the innermost call's caller created before it recursed: the
\* caller's local span, or the root for the call generate_root makes.
Enclosing == IF Len(stack) = 1 THEN 1 ELSE stack[Len(stack) - 1].span

\* Variant: Send ends the span that encloses the one it is called on.
SentEnclosing(id) ==
    [spans EXCEPT ![IF spans[id].under = 0 THEN id ELSE spans[id].under].sent = @ + 1]

Sent(id) == [spans EXCEPT ![id].sent = @ + 1]

\* ctx, root := s.tracer.CreateTrace(ctx, "root", s.fielder, count), then the
\* draw of thisSpanDuration, the first sleep and the call of generate_spans.
GenerateRoot ==
    /\ tpc = "call"
    /\ spans' = <<NewSpan(0, 0, 0, CreateTraceArgs)>>
    /\ IF spanCount + 1 = 0 \/ GoDiv(duration, spanCount + 1) <= 0
         THEN /\ tpc' = "panicked"
              /\ UNCHANGED <<rootDur, stack, slept>>
         ELSE \E thisSpanDuration \in Intn(GoDiv(duration, spanCount + 1)) :
              /\ rootDur' = thisSpanDuration
              /\ slept' = slept + GoDiv(thisSpanDuration, 2)
              /\ stack' = <<Call(1, depth - 1, spanCount - 1,
                                 duration - thisSpanDuration)>>
              /\ tpc' = "spans"
    /\ UNCHANGED <<svars, rvars, fvars, cvars, depth, spanCount>>

\* The argument of rand.Intn in nspans = 1 + rand.Intn(spancount-depth-1).
SiblingRange(d, sc) == sc - d - 1

\* The ctx generate_spans recurses with: the one it was called with, since
\* the context CreateSpan returns is dropped (_, span := ...).
ChildCtx(ctx, span) == ctx

\* Variant: the children get the whole of timeRemaining, this level's share
\* not taken off.
DurationPerChildWhole(t, r, n) == GoDiv(t, n)

\* durationPerChild := (timeRemaining - durationRemaining) / time.Duration(nspans)
DurationPerChild(t, r, n) == GoDiv(t - r, n)

\* generate_spans from its first line to the loop: return at depth 0, draw
\* nspans and durationRemaining.
SpansEntry ==
    /\ tpc = "spans"
    /\ Len(stack) > 0
    /\ Top.pc = "entry"
    /\ IF Top.depth = 0
         THEN stack' = Pop /\ tpc' = tpc
         ELSE IF \/ Top.spancount > Top.depth
                    /\ SiblingRange(Top.depth, Top.spancount) <= 0
                 \/ Top.spancount + 1 = 0
                 \/ GoDiv(Top.timeRemaining, Top.spancount + 1) <= 0
                THEN stack' = stack /\ tpc' = "panicked"
                ELSE \E n \in IF Top.spancount > Top.depth
                                THEN {1 + k : k \in Intn(SiblingRange(Top.depth, Top.spancount))}
                                ELSE {1},
                        r \in Intn(GoDiv(Top.timeRemaining, Top.spancount + 1)) :
                     /\ stack' = SetTop([Top EXCEPT
                            !.pc = "loop",
                            !.nspans = n,
                            !.durationRemaining = r,
                            !.durationPerChild = DurationPerChild(Top.timeRemaining, r, n)])
                     /\ tpc' = tpc
    /\ UNCHANGED <<svars, rvars, fvars, cvars, depth, spanCount, rootDur, spans, slept>>

\* One pass of the loop up to the recursive call: the first sleep, CreateSpan
\* and generate_spans(ctx, depth-1, spancount-nspans, durationPerChild).
SpansCreate ==
    /\ tpc = "spans"
    /\ Len(stack) > 0
    /\ Top.pc = "loop"
    /\ Top.i < Top.nspans
    /\ LET durationThisSpan == GoDiv(Top.durationRemaining, Top.nspans - Top.i)
           id == Len(spans) + 1
       IN /\ slept' = slept + GoDiv(durationThisSpan, 2)
          /\ spans' = Append(spans, NewSpan(Top.ctx, Enclosing, Len(stack),
                                         CreateSpanArgs))
          /\ stack' = Append(
                SetTop([Top EXCEPT
                    !.pc = "child",
                    !.durationRemaining = @ - durationThisSpan,
                    !.durationThisSpan = durationThisSpan,
                    !.span = id]),
                Call(ChildCtx(Top.ctx, id), Top.depth - 1,
                     Top.spancount - Top.nspans, Top.durationPerChild))
    /\ UNCHANGED <<svars, rvars, fvars, cvars, depth, spanCount, tpc, rootDur>>

\* The rest of the pass, once the recursive call has returned: the second
\* sleep, span.Send() and i++.
SpansSend ==
    /\ tpc = "spans"
    /\ Len(stack) > 0
    /\ Top.pc = "child"
    /\ slept' = slept + GoDiv(Top.durationThisSpan, 2)
    /\ spans' = Sent(Top.span)
    /\ stack' = SetTop([Top EXCEPT !.pc = "loop", !.i = @ + 1])
    /\ UNCHANGED <<svars, rvars, fvars, cvars, depth, spanCount, tpc, rootDur>>

\* The loop is over: generate_spans returns.
SpansReturn ==
    /\ tpc = "spans"
    /\ Len(stack) > 0
    /\ Top.pc = "loop"
    /\ Top.i >= Top.nspans
    /\ stack' = Pop
    /\ UNCHANGED <<svars, rvars, fvars, cvars, depth, spanCount, tpc, rootDur, spans, slept>>

\* generate_spans has returned to generate_root: the second sleep and root.Send().
RootSend ==
    /\ tpc = "spans"
    /\ Len(stack) = 0
    /\ slept' = slept + GoDiv(rootDur, 2)
    /\ spans' = Sent(1)
    /\ tpc' = "done"
    /\ UNCHANGED <<svars, rvars, fvars, cvars, depth, spanCount, rootDur, stack>>

NextTrace ==
    \/ GenerateRoot
    \/ SpansEntry
    \/ SpansCreate
    \/ SpansSend
    \/ SpansReturn
    \/ RootSend

SpecTrace == InitTrace /\ [][NextTrace]_vars

\* ------------------------------------------- claims on a trace (SpecTrace)

\* The deepest level of the recursion at which a span was created (the root is 0).
Levels == {spans[i].level : i \in DOMAIN spans}

\* C6: for spancount S < depth D, generating a trace completes (no panic) and
\* the trace has at most S spans, root included.
C6_TruncatedAtSpanCount ==
    spanCount < depth => (tpc # "panicked" /\ Len(spans) <= spanCount)

\* C7: for depth D >= 1 and spancount S >= D, whatever the random draws,
\* generating a trace completes (no panic), no span is nested deeper than
\* level D-1, and the finished trace has a span at each level 0..D-1.
C7_DepthExactlyD ==
    spanCount >= depth =>
        /\ tpc # "panicked"
        /\ \A l \in Levels : l < depth
        /\ tpc = "done" => Levels = 0..(depth - 1)

\* C8: for spancount S >= depth D a trace has at most S spans in total,
\* whatever the fan-out drawn at each level.
C8_AtMostSpanCount ==
    spanCount >= depth => Len(spans) <= spanCount

\* C9: the sum of all sleeps performed while generating one trace never
\* exceeds the trace duration.
C9_SleepsWithinDuration == slept <= duration

\* C9's case: a finished trace of three nested spans that slept more than half
\* of its duration, at the root and below it.
C9_Witness ==
    /\ tpc = "done"
    /\ Levels = 0..2
    /\ 2 * slept > duration
    /\ slept > 2 * GoDiv(rootDur, 2)

\* C10: each span created at level k >= 1 has as parent the span of level k-1
\* beneath which it was generated.
C10_ParentIsEnclosingSpan ==
    \A i \in DOMAIN spans :
        spans[i].level >= 1 => spans[i].parent = spans[i].under

\* C11: every span created by CreateTrace or CreateSpan has Send called on it
\* exactly once during the generation of its trace: never more than once at
\* any moment, and exactly once when the generation has ended, whether
\* generate_root returned or a panic ended it.
C11_SentExactlyOnce ==
    /\ \A i \in DOMAIN spans : spans[i].sent <= 1
    /\ tpc \in {"done", "panicked"} => \A i \in DOMAIN spans : spans[i].sent = 1

\* The calls of generate_spans that have drawn their nspans.
Drawn == {k \in DOMAIN stack : stack[k].pc \in {"loop", "child"}}

\* C31: a call of generate_spans with depth d > 0 and spancount s chooses a
\* number of siblings of [1, s-d) when s > d, s = d+1 included, and exactly 1
\* when s <= d; the choice never fails, and with d = 0 nothing is chosen.
C31_FanOutRule ==
    /\ \A k \in Drawn :
          /\ stack[k].depth > 0
          /\ IF stack[k].spancount > stack[k].depth
               THEN /\ stack[k].nspans >= 1
                    /\ stack[k].nspans < stack[k].spancount - stack[k].depth
               ELSE stack[k].nspans = 1
    /\ (tpc = "panicked" /\ Len(stack) > 0)
          => ~(/\ Top.depth > 0
               /\ Top.spancount > Top.depth
               /\ SiblingRange(Top.depth, Top.spancount) <= 0)

\* C32: the spans of a trace are created and sent depth first, from left to
\* right: when a span is created every earlier span generated beneath the
\* same span has been sent, a span that has been sent has nothing unsent
\* beneath it, and once the root has been sent every span has been and the
\* generation is over.
C32_DepthFirstOrder ==
    /\ \A i, j \in DOMAIN spans :
          (i < j /\ spans[i].under = spans[j].under /\ spans[i].under # 0)
              => spans[i].sent >= 1
    /\ \A i, j \in DOMAIN spans :
          (spans[i].under = j /\ spans[j].sent >= 1) => spans[i].sent >= 1
    /\ spans # <<>> /\ spans[1].sent >= 1
          => /\ tpc = "done"
             /\ \A i \in DOMAIN spans : spans[i].sent = 1

\* C32's case: a finished trace with two siblings under the root and a span
\* beneath the first of them.
C32_Witness ==
    /\ tpc = "done"
    /\ \E i, j, k \in DOMAIN spans :
          /\ i < k /\ k < j
          /\ spans[i].under = 1
          /\ spans[j].under = 1
          /\ spans[k].under = i

\* C33: a trace has exactly one top-level span, the first one, created
\* with the trace's count and level 0; every other span is created with
\* count zero and with the nesting level at which it is generated, 1 or more.
C33_CountAndLevelPassed ==
    /\ \A i \in DOMAIN spans : (spans[i].level = 0) = (i = 1)
    /\ spans # <<>>
          => /\ spans[1].count = RootCount
             /\ spans[1].given = <<0>>
    /\ \A i \in DOMAIN spans :
          i > 1 => /\ spans[i].count = 0
                   /\ spans[i].given = <<spans[i].level>>

\* ------------------------------------------- strings and strconv

\* A Go string is modelled as the sequence of its characters.
Digits == <<"0", "1", "2", "3", "4", "5", "6", "7", "8", "9">>

IsDigit(c) == \E i \in DOMAIN Digits : Digits[i] = c

DigitVal(c) == (CHOOSE i \in DOMAIN Digits : Digits[i] = c) - 1

\* Index of the first c in s, 0 when there is none.
IndexOf(s, c) ==
    IF \E i \in DOMAIN s : s[i] = c
      THEN CHOOSE i \in DOMAIN s : s[i] = c /\ \A j \in 1..(i - 1) : s[j] # c
      ELSE 0

\* s without its characters c.
Without(s, c) == SelectSeq(s, LAMBDA ch : ch # c)

\* strings.Split(s, c).
RECURSIVE Split(_, _)
Split(s, c) ==
    IF IndexOf(s, c) = 0
      THEN <<s>>
      ELSE <<SubSeq(s, 1, IndexOf(s, c) - 1)>>
             \o Split(SubSeq(s, IndexOf(s, c) + 1, Len(s)), c)

AllDigits(s) == Len(s) > 0 /\ \A i \in DOMAIN s : IsDigit(s[i])

\* The value of a string of decimal digits.
RECURSIVE DecVal(_)
DecVal(s) ==
    IF s = <<>> THEN 0
    ELSE 10 * DecVal(SubSeq(s, 1, Len(s) - 1)) + DigitVal(s[Len(s)])

RECURSIVE Pow10(_)
Pow10(k) == IF k <= 0 THEN 1 ELSE 10 * Pow10(k - 1)

\* s after its optional sign.
Unsigned(s) == IF Len(s) > 0 /\ s[1] \in {"+", "-"} THEN Tail(s) ELSE s

Negative(s) == Len(s) > 0 /\ s[1] = "-"

\* strconv.Atoi(s) and strconv.ParseInt(s, 10, 64) return no error: an
\* optional sign and at least one decimal digit. (The strings tried are far
\* too short to leave the range of int.)
IsInt(s) == AllDigits(Unsigned(s))

\* The value strconv.Atoi(s) returns when IsInt(s).
Atoi(s) == IF Negative(s) THEN -DecVal(Unsigned(s)) ELSE DecVal(Unsigned(s))

\* A float64 is modelled as the fraction n/d it was written as, d a power of
\* ten; d = 0 stands for the infinities (n = 1, n = -1) and NaN (n = 0).
Rat(n, d) == [n |-> n, d |-> d]
RatInt(i) == Rat(i, 1)
RatIsZero(r) == r.d > 0 /\ r.n = 0
RatEq(q, r) == q.d > 0 /\ r.d > 0 /\ q.n * r.d = r.n * q.d
RatLess(q, r) == q.n * r.d < r.n * q.d
RatAdd(q, r) == Rat(q.n * r.d + r.n * q.d, q.d * r.d)
RatSub(q, r) == Rat(q.n * r.d - r.n * q.d, q.d * r.d)
RatMul(q, r) == Rat(q.n * r.n, q.d * r.d)
\* v / 10
RatDiv10(r) == Rat(r.n, r.d * 10)
\* int64(v): the conversion truncates toward zero.
RatTrunc(r) == GoDiv(r.n, r.d)

\* Where the exponent of a number in scientific notation starts, 0 if it has none.
ExpAt(s) ==
    IF \E i \in DOMAIN s : s[i] \in {"e", "E"}
      THEN CHOOSE i \in DOMAIN s :
              s[i] \in {"e", "E"} /\ \A j \in 1..(i - 1) : s[j] \notin {"e", "E"}
      ELSE 0

Mantissa(s) == IF ExpAt(s) = 0 THEN s ELSE SubSeq(s, 1, ExpAt(s) - 1)

Exponent(s) == IF ExpAt(s) = 0 THEN <<"0">> ELSE SubSeq(s, ExpAt(s) + 1, Len(s))

\* Digits with at most one decimal point among them, after an optional sign.
IsDecimal(s) ==
    /\ AllDigits(Without(Unsigned(s), "."))
    /\ Len(Unsigned(s)) - Len(Without(Unsigned(s), ".")) <= 1

\* The names strconv.ParseFloat accepts besides numbers (lower case only:
\* no value tried has an upper-case letter).
IsSpecialFloat(s) ==
    \/ Unsigned(s) \in {<<"i", "n", "f">>,
                        <<"i", "n", "f", "i", "n", "i", "t", "y">>}
    \/ s = <<"n", "a", "n">>

\* strconv.ParseFloat(s, 64) returns no error. (Hexadecimal floats and
\* underscores need characters that no value tried has.)
IsFloat(s) ==
    \/ IsSpecialFloat(s)
    \/ IsDecimal(Mantissa(s)) /\ IsInt(Exponent(s))

\* The digits after the decimal point of a decimal.
FracDigits(s) ==
    IF IndexOf(s, ".") = 0 THEN 0 ELSE Len(s) - IndexOf(s, ".")

\* The value strconv.ParseFloat(s, 64) returns when IsFloat(s), taken as
\* exact: the rounding to the nearest float64 is not modelled.
ParseFloat(s) ==
    IF IsSpecialFloat(s)
      THEN IF s = <<"n", "a", "n">> THEN Rat(0, 0)
           ELSE IF Negative(s) THEN Rat(-1, 0) ELSE Rat(1, 0)
      ELSE LET m == DecVal(Without(Unsigned(Mantissa(s)), "."))
               k == Atoi(Exponent(s)) - FracDigits(Mantissa(s))
               signed == IF Negative(s) THEN -m ELSE m
           IN IF k >= 0 THEN Rat(signed * Pow10(k), 1)
                        ELSE Rat(signed, Pow10(-k))

\* ------------------------------------------- the field grammar

\* constfield = ^([^/].*)$ : a first character that is not a slash, then
\* anything but a newline up to the end of the text.
constfield(value) ==
    /\ Len(value) >= 1
    /\ value[1] # "/"
    /\ \A i \in 2..Len(value) : value[i] # "\n"

\* The characters of a parameter, [0-9.-].
IsParam(s) == \A i \in DOMAIN s : IsDigit(s[i]) \/ s[i] \in {".", "-"}

\* Index of the last character of ([ibfsuk][awxrgqtp]?[c]?) in a value whose
\* second character is one of ibfsuk. Each optional letter is taken when it
\* is there: nothing after the group can match a letter.
TypeEnd(value) ==
    LET second == IF Len(value) >= 3
                     /\ value[3] \in {"a", "w", "x", "r", "g", "q", "t", "p"}
                    THEN 3 ELSE 2
    IN IF Len(value) > second /\ value[second + 1] = "c"
         THEN second + 1 ELSE second

\* The four parameter groups of the parts between commas, "" for a group
\* that did not take part in the match.
Groups(parts) == [i \in 1..4 |-> IF i <= Len(parts) THEN parts[i] ELSE <<>>]

\* Variant: the grammar with room for a fifth parameter.
genfieldFive(value) ==
    IF Len(value) < 2 \/ value[1] # "/"
         \/ value[2] \notin {"i", "b", "f", "s", "u", "k"}
      THEN <<>>
      ELSE LET parts == Split(SubSeq(value, TypeEnd(value) + 1, Len(value)), ",")
           IN IF /\ Len(parts) <= 5
                 /\ \A i \in DOMAIN parts : IsParam(parts[i])
                 /\ \A i \in 2..Len(parts) : parts[i] # <<>>
                THEN <<SubSeq(value, 2, TypeEnd(value))>>
                       \o [i \in 1..4 |-> Groups(parts)[i]]
                ELSE <<>>

\* genfield.FindStringSubmatch(value), without the whole match: the type and
\* the four parameters, or the empty tuple for nil.
\* genfield = ^/([ibfsuk][awxrgqtp]?[c]?)([0-9.-]+)?(?:,([0-9.-]+))?
\*            (?:,([0-9.-]+))?(?:,([0-9.-]+))?$
\* After the type come at most four parts separated by commas; only the
\* first one may be missing.
genfield(value) ==
    IF Len(value) < 2 \/ value[1] # "/"
         \/ value[2] \notin {"i", "b", "f", "s", "u", "k"}
      THEN <<>>
      ELSE LET parts == Split(SubSeq(value, TypeEnd(value) + 1, Len(value)), ",")
           IN IF /\ Len(parts) <= 4
                 /\ \A i \in DOMAIN parts : IsParam(parts[i])
                 /\ \A i \in 2..Len(parts) : parts[i] # <<>>
                THEN <<SubSeq(value, 2, TypeEnd(value))>>
                       \o [i \in 1..4 |-> Groups(parts)[i]]
                ELSE <<>>

\* ------------------------------------------- values and generators

\* A value of Go's any, with its dynamic type.
VBool(b) == [type |-> "bool", v |-> b]
VInt(i) == [type |-> "int64", v |-> i]
VFloat(r) == [type |-> "float64", v |-> r]
VString(str) == [type |-> "string", v |-> str]

\* A generator, func() any, is modelled as the Rng method its closure calls
\* (fn) with the values the closure captured: integers a and b, floats x and
\* y, the constant v, and for a list of words drawn while the generator was
\* built the number of draws the Rng had made before (at).
Closure(fn, a, b, x, y) ==
    [fn |-> fn, a |-> a, b |-> b, x |-> x, y |-> y, at |-> 0, v |-> <<>>]

\* What a constructor of generators returns: a generator or an error, the
\* number of draws it took from the Rng, and whether it panicked.
Built(gen, draws) == [gen |-> gen, err |-> "", draws |-> draws, panic |-> FALSE]
Failed(err) == [gen |-> <<>>, err |-> err, draws |-> 0, panic |-> FALSE]
Panicked == [gen |-> <<>>, err |-> "", draws |-> 0, panic |-> TRUE]

\* A generator that returns the captured value v.
Const(v) == [Closure("const", 0, 0, RatInt(0), RatInt(0)) EXCEPT !.v = v]

\* Variant: the float is tried before the integer.
getConstFloatFirst(value) ==
    IF value = <<"t", "r", "u", "e">> THEN Const(VBool(TRUE))
    ELSE IF value = <<"f", "a", "l", "s", "e">> THEN Const(VBool(FALSE))
    ELSE IF IsFloat(value) THEN Const(VFloat(ParseFloat(value)))
    ELSE IF IsInt(value) THEN Const(VInt(Atoi(value)))
    ELSE Const(VString(value))

\* getConst(value): "true" and "false" are the booleans, then
\* strconv.ParseInt(value, 10, 64), then strconv.ParseFloat(value, 64), and
\* the string itself when both return an error.
getConst(value) ==
    IF value = <<"t", "r", "u", "e">> THEN Const(VBool(TRUE))
    ELSE IF value = <<"f", "a", "l", "s", "e">> THEN Const(VBool(FALSE))
    ELSE IF IsInt(value) THEN Const(VInt(Atoi(value)))
    ELSE IF IsFloat(value) THEN Const(VFloat(ParseFloat(value)))
    ELSE Const(VString(value))

\* gaussianDefaults(v1, v2): 100 and 10 when both are 0, a stddev of v1/10
\* when v2 alone is 0.
gaussianDefaults(v1, v2) ==
    IF RatIsZero(v1) /\ RatIsZero(v2) THEN <<RatInt(100), RatInt(10)>>
    ELSE IF RatIsZero(v2) THEN <<v1, RatDiv10(v1)>>
    ELSE <<v1, v2>>

\* Variant: a lone parameter stays the lower bound.
getIntGenLowerBound(gentype, p1, p2) ==
    IF p1 # <<>> /\ ~IsInt(p1) THEN Failed("is not an int")
    ELSE IF p2 # <<>> /\ ~IsInt(p2) THEN Failed("is not an int")
    ELSE LET v1 == IF p1 = <<>> THEN 0 ELSE Atoi(p1)
             v2 == IF p2 = <<>> THEN 0 ELSE Atoi(p2)
         IN IF gentype = <<"i", "g">>
              THEN LET g == gaussianDefaults(RatInt(v1), RatInt(v2))
                   IN Built(Closure("GaussianInt", 0, 0, g[1], g[2]), 0)
              ELSE Built(Closure("Int", v1, IF v1 = 0 /\ v2 = 0 THEN 100 ELSE v2,
                                 RatInt(0), RatInt(0)), 0)

\* getIntGen(rng, gentype, p1, p2). A missing p2 moves v1 to v2 and leaves
\* v1 = 0. (p2 is never ",": the grammar keeps the comma out of the group.)
getIntGen(gentype, p1, p2) ==
    IF p1 # <<>> /\ ~IsInt(p1) THEN Failed("is not an int")
    ELSE IF p2 # <<>> /\ ~IsInt(p2) THEN Failed("is not an int")
    ELSE LET first == IF p1 = <<>> THEN 0 ELSE Atoi(p1)
             v1 == IF p2 = <<>> THEN 0 ELSE first
             v2 == IF p2 = <<>> THEN first ELSE Atoi(p2)
         IN IF gentype = <<"i", "g">>
              THEN LET g == gaussianDefaults(RatInt(v1), RatInt(v2))
                   IN Built(Closure("GaussianInt", 0, 0, g[1], g[2]), 0)
              ELSE Built(Closure("Int", v1, IF v1 = 0 /\ v2 = 0 THEN 100 ELSE v2,
                                 RatInt(0), RatInt(0)), 0)

\* getFloatGen(rng, gentype, p1, p2): the same with strconv.ParseFloat; the
\* closure of fg calls rng.GaussianInt.
getFloatGen(gentype, p1, p2) ==
    IF p1 # <<>> /\ ~IsFloat(p1) THEN Failed("is not a number")
    ELSE IF p2 # <<>> /\ ~IsFloat(p2) THEN Failed("is not a number")
    ELSE LET first == IF p1 = <<>> THEN RatInt(0) ELSE ParseFloat(p1)
             v1 == IF p2 = <<>> THEN RatInt(0) ELSE first
             v2 == IF p2 = <<>> THEN first ELSE ParseFloat(p2)
         IN IF gentype = <<"f", "g">>
              THEN LET g == gaussianDefaults(v1, v2)
                   IN Built(Closure("GaussianInt", 0, 0, g[1], g[2]), 0)
              ELSE Built(Closure("Float", 0, 0, v1,
                                 IF RatIsZero(v1) /\ RatIsZero(v2)
                                   THEN RatInt(100) ELSE v2), 0)

\* len(nouns) and len(adjectives), the two vocabularies.
NumNouns == 200
NumAdjectives == 50

\* The draws getWordList(rng, cardinality, source) takes: one rng.Choice per
\* word when the source is long enough, else the two of rng.WordPair
\* (sourceLen = 0 stands for a nil source).
WordListDraws(cardinality, sourceLen) ==
    IF sourceLen > 0 /\ sourceLen >= cardinality
      THEN cardinality ELSE 2 * cardinality

\* getIpGen(rng, p1, p2, p3, p4): four strconv.Atoi, so all four parameters
\* must be there.
getIpGen(p1, p2, p3, p4) ==
    IF \E q \in {p1, p2, p3, p4} : ~IsInt(q) THEN Failed("is not an int")
    ELSE Built([Closure("Ip", 0, 0, RatInt(0), RatInt(0))
                  EXCEPT !.v = <<Atoi(p1), Atoi(p2), Atoi(p3), Atoi(p4)>>], 0)

\* case "b": the percentage, 50 unless p1 gives it, must lie in [0, 100].
getBoolGen(p1) ==
    IF p1 = <<>> THEN Built(Closure("BoolWithProb", 0, 0, RatInt(50), RatInt(0)), 0)
    ELSE IF \/ ~IsFloat(p1)
            \/ RatLess(ParseFloat(p1), RatInt(0))
            \/ RatLess(RatInt(100), ParseFloat(p1))
           THEN Failed("invalid bool option")
           ELSE Built(Closure("BoolWithProb", 0, 0, ParseFloat(p1), RatInt(0)), 0)

\* genHexStringWithCardinality(rng, p1, p2): a length below 64 (16) and a
\* cardinality (16).
genHexStringWithCardinality(p1, p2) ==
    IF p1 # <<>> /\ ~IsInt(p1) THEN Failed("is not an int")
    ELSE IF p1 # <<>> /\ Atoi(p1) >= 64 THEN Failed("sxc length can only be a max of 63")
    ELSE IF p2 # <<>> /\ ~IsInt(p2) THEN Failed("is not an int")
    ELSE Built(Closure("HexCardinality",
                       IF p1 = <<>> THEN 16 ELSE Atoi(p1),
                       IF p2 = <<>> THEN 16 ELSE Atoi(p2),
                       RatInt(0), RatInt(0)), 0)

\* case "s", "sw", "sx", "sa", "sq", "sxc": n is 16 unless p1 gives it; sw and
\* sq draw their n words at once, and make([]string, n) panics for n < 0.
getStringGen(gentype, p1, p2) ==
    IF p1 # <<>> /\ ~IsInt(p1) THEN Failed("invalid string option")
    ELSE LET n == IF p1 = <<>> THEN 16 ELSE Atoi(p1)
         IN CASE gentype = <<"s", "w">> ->
                   IF n < 0 THEN Panicked
                   ELSE Built(Closure("Choice", n, 0, RatInt(0), RatInt(0)),
                              WordListDraws(n, 0))
              [] gentype = <<"s", "q">> ->
                   IF n < 0 THEN Panicked
                   ELSE Built(Closure("QuadraticChoice", n, 0, RatInt(0), RatInt(0)),
                              WordListDraws(n, 0))
              [] gentype = <<"s", "x">> ->
                   Built(Closure("HexString", n, 0, RatInt(0), RatInt(0)), 0)
              [] gentype = <<"s", "x", "c">> ->
                   genHexStringWithCardinality(p1, p2)
              [] OTHER ->
                   Built(Closure("String", n, 0, RatInt(0), RatInt(0)), 0)

\* getKeyGen(rng, p1, p2): a cardinality (50) of at most len(nouns) and a
\* period in seconds (60); nouns[:cardinality] panics for a negative
\* cardinality, and newPeriodicEligibility draws one rng.Float per word.
getKeyGen(p1, p2) ==
    IF p1 # <<>> /\ ~IsInt(p1) THEN Failed("is not an int")
    ELSE IF p1 # <<>> /\ Atoi(p1) > NumNouns THEN Failed("cardinality cannot be more")
    ELSE IF p2 # <<>> /\ ~IsInt(p2) THEN Failed("is not an int")
    ELSE LET cardinality == IF p1 = <<>> THEN 50 ELSE Atoi(p1)
             period == IF p2 = <<>> THEN 60 ELSE Atoi(p2)
         IN IF cardinality < 0 THEN Panicked
            ELSE Built(Closure("Key", cardinality, period, RatInt(0), RatInt(0)),
                       cardinality)

\* getURLGen(rng, gentype, p1, p2): c1 words (3) from the nouns and, unless
\* c2 is 0, c2 words (10) from the adjectives, drawn at once.
getURLGen(gentype, p1, p2) ==
    IF p1 # <<>> /\ ~IsInt(p1) THEN Failed("is not a number")
    ELSE IF p2 # <<>> /\ ~IsInt(p2) THEN Failed("is not a number")
    ELSE LET c1 == IF p1 = <<>> THEN 3 ELSE Atoi(p1)
             c2 == IF p2 = <<>> THEN 10 ELSE Atoi(p2)
         IN IF c1 < 0 \/ c2 < 0 THEN Panicked
            ELSE Built(Closure(IF gentype = <<"u", "q">> THEN "URLQuery" ELSE "URL",
                               c1, c2, RatInt(0), RatInt(0)),
                       WordListDraws(c1, NumNouns) + WordListDraws(c2, NumAdjectives))

\* case "st": the percentages of 400s (4) and of 500s (1).
getStatusGen(p1, p2) ==
    IF p1 # <<>> /\ ~IsFloat(p1) THEN Failed("invalid float")
    ELSE IF p2 # <<>> /\ ~IsFloat(p2) THEN Failed("invalid float")
    ELSE Built(Closure("Status", 0, 0,
                       IF p1 = <<>> THEN RatInt(4) ELSE ParseFloat(p1),
                       IF p2 = <<>> THEN RatInt(1) ELSE ParseFloat(p2)), 0)

\* An error made by fmt.Errorf: its format and its arguments; the nil error
\* has no format.
Errorf(msg, args) == [msg |-> msg, args |-> args]
NoError == Errorf("", <<>>)

\* The formats of parseUserFields that end with the cause, %w.
CauseFormats == {"invalid int in user field %s=%s: %w",
                 "invalid float in user field %s=%s: %w",
                 "invalid key in key field %s=%s: %w"}

\* One pass of parseUserFields' loop, for name and value with the Rng pos
\* draws into its stream: the generator stored in fields[name] or the error
\* returned, the position of the Rng afterwards, and whether the pass panicked.
ParseField(name, value, pos) ==
    IF constfield(value)
      THEN [gen |-> getConst(value), err |-> NoError, pos |-> pos, panic |-> FALSE]
    ELSE IF genfield(value) = <<>>
      THEN [gen |-> <<>>, err |-> Errorf("unparseable user field %s=%s", <<name, value>>),
            pos |-> pos, panic |-> FALSE]
    ELSE LET matches == genfield(value)
             gentype == matches[1]
             p1 == matches[2]
             p2 == matches[3]
             p3 == matches[4]
             p4 == matches[5]
             Wrap(format, r) ==
                IF r.panic THEN [gen |-> <<>>, err |-> NoError, pos |-> pos, panic |-> TRUE]
                ELSE IF r.err # ""
                  THEN [gen |-> <<>>,
                        err |-> Errorf(format, IF format \in CauseFormats
                                                 THEN <<name, value, r.err>>
                                                 ELSE <<name, value>>),
                        pos |-> pos, panic |-> FALSE]
                  ELSE [gen |-> [r.gen EXCEPT !.at = pos], err |-> NoError,
                        pos |-> pos + r.draws, panic |-> FALSE]
         IN CASE gentype = <<"i", "p">> ->
                   Wrap("invalid int in user field %s=%s: %w", getIpGen(p1, p2, p3, p4))
              [] gentype \in {<<"i">>, <<"i", "r">>, <<"i", "g">>} ->
                   Wrap("invalid int in user field %s=%s: %w", getIntGen(gentype, p1, p2))
              [] gentype \in {<<"f">>, <<"f", "r">>, <<"f", "g">>} ->
                   Wrap("invalid float in user field %s=%s: %w", getFloatGen(gentype, p1, p2))
              [] gentype = <<"b">> ->
                   Wrap("invalid bool option in %s=%s", getBoolGen(p1))
              [] gentype \in {<<"s">>, <<"s", "w">>, <<"s", "x">>, <<"s", "a">>,
                              <<"s", "q">>, <<"s", "x", "c">>} ->
                   Wrap(IF p1 # <<>> /\ ~IsInt(p1)
                          THEN "invalid string option in %s=%s"
                          ELSE "invalid int in user field %s=%s: %w",
                        getStringGen(gentype, p1, p2))
              [] gentype = <<"k">> ->
                   Wrap("invalid key in key field %s=%s: %w", getKeyGen(p1, p2))
              [] gentype \in {<<"u">>, <<"u", "q">>} ->
                   Wrap("invalid float in user field %s=%s: %w", getURLGen(gentype, p1, p2))
              [] gentype = <<"s", "t">> ->
                   Wrap("invalid float in user field %s=%s: %w", getStatusGen(p1, p2))
              [] OTHER ->
                   [gen |-> <<>>,
                    err |-> Errorf("invalid generator type %s in field %s=%s",
                                   <<gentype, name, value>>),
                    pos |-> pos, panic |-> FALSE]

\* What parseUserFields returns: the map and the error, and with them the
\* position of the Rng and whether the call panicked. A nil map is told from
\* an empty one by the flag.
Parsed(nil, fields, err, pos, panic) ==
    [nil |-> nil, fields |-> fields, err |-> err, pos |-> pos, panic |-> panic]

\* The loop of parseUserFields over the names still to come, in the order the
\* range over the map yields them.
RECURSIVE ParseLoop(_, _, _, _)
ParseLoop(userfields, order, fields, pos) ==
    IF order = <<>> THEN Parsed(FALSE, fields, NoError, pos, FALSE)
    ELSE LET name == Head(order)
             r == ParseField(name, userfields[name], pos)
         IN IF r.panic THEN Parsed(TRUE, <<>>, NoError, pos, TRUE)
            ELSE IF r.err.msg # "" THEN Parsed(TRUE, <<>>, r.err, pos, FALSE)
            ELSE ParseLoop(userfields, Tail(order),
                           [k \in DOMAIN fields \cup {name} |->
                               IF k = name THEN r.gen ELSE fields[k]],
                           r.pos)

\* The orders in which a range over a map with these keys may yield them: Go
\* leaves the iteration order of a map unspecified.
Orders(keyset) ==
    {o \in [1..Cardinality(keyset) -> keyset] :
        \A i, j \in DOMAIN o : i # j => o[i] # o[j]}

\* parseUserFields(rng, userfields) with the Rng pos draws into its stream and
\* the range over userfields yielding the names in this order.
parseUserFields(pos, userfields, order) == ParseLoop(userfields, order, <<>>, pos)

\* ------------------------------------------- calling a generator

\* The model samples rand.Float64(), a float of [0, 1), at the multiples of
\* 1/UnitSteps, and rand.NormFloat64() at -1, 0 and 1.
UnitSteps == 4
UnitDraws == {Rat(k, UnitSteps) : k \in 0..(UnitSteps - 1)}
NormDraws == {RatInt(-1), RatInt(0), RatInt(1)}

\* int(math.Floor(math.Sqrt(rn))) for rn >= 0.
FloorSqrt(rn) ==
    CHOOSE k \in 0..(Abs(rn.n) + 1) :
        k * k * rn.d <= rn.n /\ (k + 1) * (k + 1) * rn.d > rn.n

\* rng.Float(min, max): r.rng.Float64()*(max-min) + min.
RngFloat(min, max) ==
    {RatAdd(RatMul(u, RatSub(max, min)), min) : u \in UnitDraws}

\* Variant: a choice without bias, len(a) - int(rn / len(a)) - 1.
QuadraticChoiceLinear(n, rn) == n - RatTrunc(Rat(rn.n, rn.d * n)) - 1

\* rng.QuadraticChoice(a) for a list of n elements and the draw
\* rn := r.Float(0, sq): the index len(a) - int(math.Floor(math.Sqrt(rn))) - 1.
QuadraticChoice(n, rn) == n - FloorSqrt(rn) - 1

\* The indexes it may select in a list of n >= 1 elements, over the draws of
\* the Rng that the model samples.
QuadraticIndexes(n) ==
    {QuadraticChoice(n, rn) : rn \in RngFloat(RatInt(0), RatInt(n * n))}

\* A call of the generator panics: rand.Intn with an argument that is not
\* positive, an index or a slice bound out of range, a modulus of zero.
Panics(g) ==
    CASE g.fn = "Int" -> g.b - g.a <= 0
      [] g.fn = "HexCardinality" -> g.b <= 0 \/ g.a < 0
      [] g.fn = "Ip" -> \E i \in 1..4 : g.v[i] <= 0
      [] g.fn = "QuadraticChoice" -> g.a = 0
      [] g.fn = "Key" -> g.b = 0 \/ g.a = 0
      [] OTHER -> FALSE

\* The status codes of case "st" by class, as strings.
Status2xx == {<<"2", "0", "0">>, <<"2", "0", "1">>, <<"2", "0", "2">>}
Status4xx == {<<"4", "0", "4">>, <<"4", "0", "0">>, <<"4", "0", "2">>,
              <<"4", "2", "9">>, <<"4", "0", "3">>}

\* The values a call of the generator may return, over the draws of its Rng,
\* when it does not panic. A word is named by the list it is in (the
\* position at which the list was drawn) and its index in the list; a string
\* of random characters only by its alphabet and length.
Returns(g) ==
    CASE g.fn = "const" -> {g.v}
      [] g.fn = "Int" -> {VInt(k + g.a) : k \in Intn(g.b - g.a)}
      [] g.fn = "GaussianInt" ->
            {VInt(RatTrunc(RatAdd(RatMul(z, g.y), g.x))) : z \in NormDraws}
      [] g.fn = "Float" -> {VFloat(r) : r \in RngFloat(g.x, g.y)}
      [] g.fn = "Gaussian" ->
            {VFloat(RatAdd(RatMul(z, g.y), g.x)) : z \in NormDraws}
      [] g.fn = "StringHexString" ->
            {VString([letters |-> g.a, hex |-> g.b, more |-> g.a])}
      [] g.fn = "BoolWithProb" ->
            {VBool(RatLess(r, g.x)) : r \in RngFloat(RatInt(0), RatInt(100))}
      [] g.fn = "String" -> {VString([letters |-> IF g.a > 0 THEN g.a ELSE 0])}
      [] g.fn = "HexString" -> {VString([hex |-> IF g.a > 0 THEN g.a ELSE 0])}
      [] g.fn = "HexCardinality" ->
            {VString([sha256 |-> <<number, g.a>>, length |-> g.a]) : number \in Intn(g.b)}
      [] g.fn = "Ip" ->
            {VString(<<o1, o2, o3, o4>>) :
                o1 \in Intn(g.v[1]), o2 \in Intn(g.v[2]),
                o3 \in Intn(g.v[3]), o4 \in Intn(g.v[4])}
      [] g.fn = "Choice" ->
            IF g.a = 0 THEN {VString(<<>>)}
            ELSE {VString([list |-> g.at, ix |-> i]) : i \in Intn(g.a)}
      [] g.fn = "QuadraticChoice" ->
            {VString([list |-> g.at, ix |-> i]) : i \in QuadraticIndexes(g.a)}
      [] g.fn = "Key" -> {VString([noun |-> i]) : i \in Intn(g.a)}
      [] g.fn \in {"URL", "URLQuery"} ->
            {VString([path1 |-> i, path2 |-> j, query |-> g.fn = "URLQuery"]) :
                i \in IF g.a = 0 THEN {-1} ELSE Intn(g.a),
                j \in IF g.b = 0 THEN {-1} ELSE Intn(g.b)}
      [] g.fn = "Status" ->
            UNION {IF RatLess(r, RatSub(RatSub(RatInt(100), g.x), g.y))
                     THEN {VString(c) : c \in Status2xx}
                   ELSE IF RatLess(r, RatSub(RatInt(100), g.y))
                     THEN {VString(c) : c \in Status4xx}
                   ELSE {VString(<<"5", "0", "0">>)} :
                   r \in RngFloat(RatInt(0), RatInt(100))}

\* ------------------------------------------- SpecParse: parse, then call

\* The characters of the values tried exhaustively, and their greatest length.
Alphabet == {"/", "i", "g", "z", "0", "5", ",", "-"}
MaxValueLen == 4
\* Calls made on the generators of one map.
MaxCalls == 2

\* Every string over the alphabet up to the greatest length.
Strings == UNION {[1..n -> Alphabet] : n \in 0..MaxValueLen}

\* Longer values: those of the README and others of each type.
Examples ==
    {<<"t", "r", "u", "e">>, <<"f", "a", "l", "s", "e">>, <<"4", "2">>,
     <<"h", "e", "l", "l", "o">>, <<"4", ".", "5">>, <<"-", "7">>,
     <<"1", "e", "3">>, <<"T", "r", "u", "e">>, <<"i", "n", "f">>,
     <<"/", "i", "1", "0", ",", "2", "0">>, <<"/", "i", "1", "0", "0">>,
     <<"/", "i", "r", "5", ",", "9">>, <<"/", "i", "1", ".", "5">>,
     <<"/", "i", "x">>, <<"/", "i", "g">>, <<"/", "i", "g", "5", "0">>,
     <<"/", "i", "g", "5", "0", ",", "3", "0">>,
     <<"/", "i", "g", "5", "0", ",", "0">>, <<"/", "f">>, <<"/", "f", "r">>,
     <<"/", "f", "-", "1", "0", "0", ",", "1", "0", "0">>,
     <<"/", "f", "0", ".", "5">>, <<"/", "f", "g">>,
     <<"/", "f", "g", "5", "0">>,
     <<"/", "f", "g", "1", "0", "0", ",", "5", "0">>, <<"/", "b">>,
     <<"/", "b", "3", "0">>, <<"/", "b", "2", "0", "0">>, <<"/", "s">>,
     <<"/", "s", "a", "4">>, <<"/", "s", "x", "3", "2">>,
     <<"/", "s", "w", "1", "2">>, <<"/", "s", "w", "-", "1">>,
     <<"/", "s", "q", "9">>, <<"/", "s", "x", "c", "8", ",", "1", "0", "0">>,
     <<"/", "k">>, <<"/", "k", "5", "0", ",", "6", "0">>,
     <<"/", "k", "3", "0", "0">>, <<"/", "u">>,
     <<"/", "u", "1", "0", ",", "1", "0">>, <<"/", "u", "q">>,
     <<"/", "s", "t">>, <<"/", "s", "t", "1", "0", ",", "0", ".", "1">>,
     <<"/", "i", "p">>,
     <<"/", "i", "p", "1", ",", "1", ",", "1", ",", "2", "5", "6">>,
     <<"/", "z", "5">>,
     <<"/", "i", "0", ",", "0", ",", "0", ",", "0", ",", "0">>,
     <<"/", "i", "1", ",", "2", ",", "3", ",", "4">>,
     <<"/", "i", "5", ",", "5">>, <<"/", "i", "2", "0", ",", "1", "0">>,
     <<"/", "k", "0">>, <<"/", "k", "5", ",", "0">>, <<"/", "s", "q", "0">>}

\* The maps of field specs tried: one field, with each of the values, and maps
\* of two fields of which one or none is malformed.
ParseInputs ==
    {[name \in {<<"a">>} |-> value] : value \in Strings \cup Examples}
      \cup {[name \in {<<"a">>, <<"b">>} |-> IF name = <<"a">> THEN pair[1] ELSE pair[2]] :
              pair \in {<<<<"4", "2">>, <<"/", "z", "5">>>>,
                        <<<<"/", "i", "5">>, <<"/", "i", "0", ",", "0", ",", "0", ",", "0", ",", "0">>>>,
                        <<<<"/", "b", "x">>, <<"t", "r", "u", "e">>>>,
                        <<<<"/", "i", "5">>, <<"h", "i">>>>}}

InitParse ==
    /\ userFields \in ParseInputs
    /\ stream = <<>>
    /\ nextras = 0
    /\ nservices = 0
    /\ attributesPerSpan = 0
    /\ intrinsicAttributes = 0
    /\ parsed = <<>>
    /\ fielders = <<>>
    /\ out = <<>>
    /\ calls = 0
    /\ ControllerIdle
    /\ TraceIdle
    /\ duration = 0
    /\ RngIdle
    /\ DrawsIdle

\* fields, err := parseUserFields(rng, userFields) on a fresh Rng.
Parse ==
    /\ parsed = <<>>
    /\ fielders = <<>>
    /\ \E order \in Orders(DOMAIN userFields) :
          parsed' = <<parseUserFields(0, userFields, order)>>
    /\ UNCHANGED <<svars, rvars, cvars, tvars, userFields, stream, nextras, nservices, attributesPerSpan,
                   intrinsicAttributes, fielders, out, calls>>

\* A call fields[name]() of a generator that parseUserFields returned: the
\* value it returns, or the panic that ends the program.
CallGen(name) ==
    /\ parsed # <<>>
    /\ ~parsed[1].nil
    /\ name \in DOMAIN parsed[1].fields
    /\ calls < MaxCalls
    /\ IF out = <<>> THEN TRUE ELSE ~out[1].panic
    /\ LET g == parsed[1].fields[name]
       IN IF Panics(g)
            THEN out' = <<[name |-> name, value |-> VBool(FALSE), panic |-> TRUE]>>
            ELSE \E v \in Returns(g) :
                    out' = <<[name |-> name, value |-> v, panic |-> FALSE]>>
    /\ calls' = calls + 1
    /\ UNCHANGED <<svars, rvars, cvars, tvars, userFields, stream, nextras, nservices, attributesPerSpan,
                   intrinsicAttributes, parsed, fielders>>

NextParse ==
    \/ Parse
    \/ \E name \in DOMAIN userFields : CallGen(name)

SpecParse == InitParse /\ [][NextParse]_vars

\* ------------------------------------------- claims on parsing (SpecParse)

\* The result of the call of parseUserFields and of the last generator call.
Result == parsed[1]
Last == out[1]

\* The error names the field and the value: they are arguments of its format.
ErrorNames(err, name, value) ==
    /\ err.msg # ""
    /\ IF err.msg = "invalid generator type %s in field %s=%s"
         THEN err.args[2] = name /\ err.args[3] = value
         ELSE err.args[1] = name /\ err.args[2] = value

BeginsWithSlash(value) == Len(value) > 0 /\ value[1] = "/"

\* The constant a value stands for: a boolean, else an integer, else a
\* float, else the string itself.
ConstantOf(value) ==
    IF value = <<"t", "r", "u", "e">> THEN VBool(TRUE)
    ELSE IF value = <<"f", "a", "l", "s", "e">> THEN VBool(FALSE)
    ELSE IF IsInt(value) THEN VInt(Atoi(value))
    ELSE IF IsFloat(value) THEN VFloat(ParseFloat(value))
    ELSE VString(value)

\* The field name = value is parsed as a constant: no error of the call
\* names it, the map returned has a generator for it, and whenever that
\* generator has been called it has returned the constant of the value.
ParsedAsConstant(name, value) ==
    /\ parsed # <<>> =>
          /\ ~Result.panic
          /\ ~ErrorNames(Result.err, name, value)
          /\ ~Result.nil => name \in DOMAIN Result.fields
    /\ (out # <<>> /\ Last.name = name) =>
          /\ ~Last.panic
          /\ Last.value = ConstantOf(value)

HasType(value, types) ==
    genfield(value) # <<>> /\ genfield(value)[1] \in types

\* The first and second parameter of a generator spec.
P1(value) == genfield(value)[2]
P2(value) == genfield(value)[3]

\* The call returned an integer of [lo, hi).
ReturnedIn(lo, hi) ==
    /\ ~Last.panic
    /\ Last.value.type = "int64"
    /\ lo <= Last.value.v
    /\ Last.value.v < hi

\* The value of the last call comes from the generator of a field of type i
\* or ir.
IntCalled(name) ==
    /\ out # <<>>
    /\ Last.name = name
    /\ HasType(userFields[name], {<<"i">>, <<"i", "r">>})

\* C17 as stated: for i and ir, parameters p1 < p2 give an integer of
\* [p1, p2) on every call, no parameter gives [0, 100), and a single
\* parameter p gives [0, p).
C17_IntRange ==
    \A name \in DOMAIN userFields :
        IntCalled(name) =>
            LET p1 == P1(userFields[name])
                p2 == P2(userFields[name])
            IN /\ (IsInt(p1) /\ IsInt(p2) /\ Atoi(p1) < Atoi(p2))
                     => ReturnedIn(Atoi(p1), Atoi(p2))
               /\ (p1 = <<>> /\ p2 = <<>>) => ReturnedIn(0, 100)
               /\ (IsInt(p1) /\ p2 = <<>>) => ReturnedIn(0, Atoi(p1))

\* C17, amended: the single parameter p is the upper bound when p >= 1; a
\* single parameter 0 is taken for no parameter and gives [0, 100).
C17_IntRangeFromOne ==
    \A name \in DOMAIN userFields :
        IntCalled(name) =>
            LET p1 == P1(userFields[name])
                p2 == P2(userFields[name])
            IN /\ (IsInt(p1) /\ IsInt(p2) /\ Atoi(p1) < Atoi(p2))
                     => ReturnedIn(Atoi(p1), Atoi(p2))
               /\ (p1 = <<>> /\ p2 = <<>>) => ReturnedIn(0, 100)
               /\ (IsInt(p1) /\ p2 = <<>> /\ Atoi(p1) >= 1)
                     => ReturnedIn(0, Atoi(p1))
               /\ (IsInt(p1) /\ p2 = <<>> /\ Atoi(p1) = 0) => ReturnedIn(0, 100)

\* C17's case: the second call of the generator of a=/i10,20 returned 19.
C17_Witness ==
    /\ userFields = [name \in {<<"a">>} |-> <<"/", "i", "1", "0", ",", "2", "0">>]
    /\ calls = 2
    /\ Last.value = VInt(19)

\* The generator of the field, in the map parseUserFields returned.
GenOf(name) == Result.fields[name]

\* C18: a field of type ig or fg with no parameter has a generator of mean
\* 100 and stddev 10; with the mean alone (e.g. /ig50) its generator has the
\* supplied mean and a stddev of a tenth of it. (A supplied mean of 0, for
\* which a tenth is no stddev, is left out.)
C18_GaussianDefaults ==
    \A name \in DOMAIN userFields :
        (/\ parsed # <<>>
         /\ ~Result.nil
         /\ HasType(userFields[name], {<<"i", "g">>, <<"f", "g">>}))
          => LET p1 == P1(userFields[name])
                 p2 == P2(userFields[name])
             IN /\ (p1 = <<>> /\ p2 = <<>>)
                      => /\ RatEq(GenOf(name).x, RatInt(100))
                         /\ RatEq(GenOf(name).y, RatInt(10))
                /\ (p1 # <<>> /\ p2 = <<>> /\ ~RatIsZero(ParseFloat(p1)))
                      => /\ RatEq(GenOf(name).x, ParseFloat(p1))
                         /\ RatEq(GenOf(name).y, RatDiv10(ParseFloat(p1)))

\* The kind of value a type code names: integers for i, ir and ig, floats
\* for f, fr and fg, booleans for b, strings for the others.
KindNamed(gentype) ==
    CASE gentype \in {<<"i">>, <<"i", "r">>, <<"i", "g">>} -> "int64"
      [] gentype \in {<<"f">>, <<"f", "r">>, <<"f", "g">>} -> "float64"
      [] gentype = <<"b">> -> "bool"
      [] OTHER -> "string"

\* C19: whatever a generator returns is of the kind its type code names.
C19_KindOfTypeCode ==
    \A name \in DOMAIN userFields :
        (/\ out # <<>>
         /\ Last.name = name
         /\ ~Last.panic
         /\ genfield(userFields[name]) # <<>>)
          => Last.value.type = KindNamed(genfield(userFields[name])[1])

\* Where the parameters of a value begin: its first digit, point, minus or
\* comma after the slash, or past its end when it has none.
ParamStart(value) ==
    IF \E i \in 2..Len(value) : IsParam(<<value[i]>>) \/ value[i] = ","
      THEN CHOOSE i \in 2..Len(value) :
              /\ IsParam(<<value[i]>>) \/ value[i] = ","
              /\ \A j \in 2..(i - 1) : ~IsParam(<<value[j]>>) /\ value[j] # ","
      ELSE Len(value) + 1

\* The type code of a value that begins with a slash: what stands between
\* the slash and the parameters.
TypeCode(value) == SubSeq(value, 2, ParamStart(value) - 1)

\* The number of its parameters.
ParamCount(value) ==
    IF ParamStart(value) > Len(value) THEN 0
    ELSE Len(Split(SubSeq(value, ParamStart(value), Len(value)), ","))

\* The type codes of the README's table.
KnownTypes ==
    {<<"i">>, <<"i", "r">>, <<"i", "g">>, <<"i", "p">>, <<"f">>, <<"f", "r">>,
     <<"f", "g">>, <<"b">>, <<"s">>, <<"s", "a">>, <<"s", "w">>, <<"s", "q">>,
     <<"s", "x">>, <<"s", "x", "c">>, <<"k">>, <<"u">>, <<"u", "q">>, <<"s", "t">>}

\* A value that begins with a slash and has an unknown type code or more
\* than four parameters.
Malformed(value) ==
    /\ BeginsWithSlash(value)
    /\ TypeCode(value) \notin KnownTypes \/ ParamCount(value) > 4

\* C20: when a field of the map has a malformed value, parseUserFields returns
\* an error that names a malformed field and its value, and a nil map: no
\* generator of any field of the map is there to be called.
C20_MalformedRejected ==
    \A name \in DOMAIN userFields :
        (Malformed(userFields[name]) /\ parsed # <<>>)
          => /\ ~Result.panic
             /\ Result.nil
             /\ Result.fields = <<>>
             /\ out = <<>>
             /\ \E n \in DOMAIN userFields :
                   /\ Malformed(userFields[n])
                   /\ ErrorNames(Result.err, n, userFields[n])

\* C20's case: a=42 and b=/z5 were parsed, and the error names b and /z5.
C20_Witness ==
    /\ DOMAIN userFields = {<<"a">>, <<"b">>}
    /\ userFields[<<"b">>] = <<"/", "z", "5">>
    /\ parsed # <<>>
    /\ Result.nil
    /\ ErrorNames(Result.err, <<"b">>, <<"/", "z", "5">>)

\* A generator spec with a parameter out of range: an integer range that is
\* empty or inverted, a probability outside [0, 100], a cardinality of zero,
\* a cardinality of keys above the number of nouns, a period of keys that is
\* not positive.
OutOfRange(value) ==
    \/ /\ HasType(value, {<<"i">>, <<"i", "r">>})
       /\ IsInt(P1(value)) /\ IsInt(P2(value))
       /\ Atoi(P1(value)) >= Atoi(P2(value))
    \/ /\ HasType(value, {<<"b">>})
       /\ IsFloat(P1(value))
       /\ \/ RatLess(ParseFloat(P1(value)), RatInt(0))
          \/ RatLess(RatInt(100), ParseFloat(P1(value)))
    \/ /\ HasType(value, {<<"s", "w">>, <<"s", "q">>, <<"k">>})
       /\ IsInt(P1(value))
       /\ Atoi(P1(value)) = 0
    \/ /\ HasType(value, {<<"k">>})
       /\ \/ IsInt(P1(value)) /\ Atoi(P1(value)) > NumNouns
          \/ IsInt(P2(value)) /\ Atoi(P2(value)) <= 0

\* C21: a generator that parseUserFields returned without error never panics
\* when it is called, and a map with a field whose parameter is out of range
\* is rejected with an error that names such a field.
C21_RangeCheckedAtConstruction ==
    /\ IF out = <<>> THEN TRUE ELSE ~Last.panic
    /\ \A name \in DOMAIN userFields :
          (OutOfRange(userFields[name]) /\ parsed # <<>>)
            => /\ ~Result.panic
               /\ Result.nil
               /\ \E n \in DOMAIN userFields :
                     /\ OutOfRange(userFields[n])
                     /\ ErrorNames(Result.err, n, userFields[n])

\* ------------------------------------------- the seeded Rng

\* A seed fixes what the Rng's rand.Rand yields call after call. The model
\* keeps the outcomes of that stream looked at so far, one of Raws per call,
\* by their positions: an Rng that has made pos calls reads stream[pos + 1]
\* next.
Raws == {0, 1}

\* r.rng.Intn(n) and r.rng.Float64() of an outcome.
RawIntn(raw, n) == raw % n
RawFloat64(raw) == Rat(raw, Cardinality(Raws))

\* rng.WordPair() by an Rng that has made pos calls: rng.Choice(adjectives)
\* and rng.Choice(nouns), as the indexes of the two words.
WordPairAt(s, pos) ==
    [adj |-> RawIntn(s[pos + 1], NumAdjectives),
     noun |-> RawIntn(s[pos + 2], NumNouns)]

\* getValueGenerators(): the generators the extra fields choose from.
ValueGenerators ==
    <<Closure("Int", 0, 100, RatInt(0), RatInt(0)),
      Closure("BoolWithProb", 0, 0, RatInt(99), RatInt(0)),
      Closure("BoolWithProb", 0, 0, RatInt(50), RatInt(0)),
      Closure("BoolWithProb", 0, 0, RatInt(1), RatInt(0)),
      Closure("Int", -100, 100, RatInt(0), RatInt(0)),
      Closure("Float", 0, 0, RatInt(0), RatInt(1000)),
      Closure("Float", 0, 0, RatInt(0), RatInt(1)),
      Closure("GaussianInt", 0, 0, RatInt(50), RatInt(30)),
      Closure("Gaussian", 0, 0, RatInt(10000), RatInt(1000)),
      Closure("Gaussian", 0, 0, RatInt(500), RatInt(300)),
      Closure("String", 2, 0, RatInt(0), RatInt(0)),
      Closure("String", 5, 0, RatInt(0), RatInt(0)),
      Closure("String", 10, 0, RatInt(0), RatInt(0)),
      Closure("StringHexString", 4, 8, RatInt(0), RatInt(0)),
      Closure("HexString", 16, 0, RatInt(0), RatInt(0))>>

\* The calls of the Rng one call of the generator makes, for the kinds of
\* generator the Fielders tried have: constants, lists of words, and the
\* first of the value generators.
CallDraws(g) ==
    CASE g.fn = "const" -> 0
      [] g.fn = "Choice" -> IF g.a = 0 THEN 0 ELSE 1
      [] g.fn \in {"Int", "BoolWithProb", "Float"} -> 1

\* The value a call of the generator returns when its Rng has made pos calls
\* of the stream s, for the same kinds. A word of a list is the pair that
\* rng.WordPair drew for it when the list was built.
Invoke(g, s, pos) ==
    CASE g.fn = "const" -> g.v
      [] g.fn = "Choice" ->
            IF g.a = 0 THEN VString(<<>>)
            ELSE IF g.a = 1 THEN VString(WordPairAt(s, g.at))
            ELSE VString(WordPairAt(s, g.at + 2 * RawIntn(s[pos + 1], g.a)))
      [] g.fn = "Int" -> VInt(RawIntn(s[pos + 1], g.b - g.a) + g.a)
      [] g.fn = "BoolWithProb" ->
            VBool(RatLess(RatMul(RawFloat64(s[pos + 1]), RatInt(100)), g.x))
      [] g.fn = "Float" ->
            VFloat(RatAdd(RatMul(RawFloat64(s[pos + 1]), RatSub(g.y, g.x)), g.x))

\* ------------------------------------------- the Fielder

\* The length of the run of digits a name begins with.
DigitRun(name) ==
    CHOOSE d \in 0..Len(name) :
        /\ \A i \in 1..d : IsDigit(name[i])
        /\ d = Len(name) \/ ~IsDigit(name[d + 1])

\* keysplitter.FindStringSubmatch(name) without the whole match: the digits
\* and the rest, or the empty tuple. keysplitter = ^([0-9]+)\.(.*$)
keysplitter(name) ==
    IF /\ DigitRun(name) >= 1
       /\ Len(name) > DigitRun(name)
       /\ name[DigitRun(name) + 1] = "."
       /\ \A i \in (DigitRun(name) + 2)..Len(name) : name[i] # "\n"
      THEN <<SubSeq(name, 1, DigitRun(name)),
             SubSeq(name, DigitRun(name) + 2, Len(name))>>
      ELSE <<>>

\* f.atLevel(name, level): the name without its level marker, and whether
\* the field belongs to the level. (strconv.Atoi of the digits; the names
\* tried have too few to leave the range of int.)
atLevel(name, level) ==
    IF keysplitter(name) = <<>> THEN <<name, TRUE>>
    ELSE IF DecVal(keysplitter(name)[1]) = level
           THEN <<keysplitter(name)[2], TRUE>>
           ELSE <<keysplitter(name)[2], FALSE>>

\* The id of the process, os.Getpid().
Pid == 4242

ProcessIdName == <<"process_id">>

\* fields with fields[name] = gen.
Put(fields, name, gen) ==
    [k \in DOMAIN fields \cup {name} |-> IF k = name THEN gen ELSE fields[k]]

\* NewFielder's loop over the extra fields still to add, its Rng at pos:
\* fieldname := rng.WordPair(); fields[fieldname] = gens[rng.Intn(len(gens))].
RECURSIVE WithExtras(_, _, _, _)
WithExtras(fields, s, pos, n) ==
    IF n <= 0 THEN fields
    ELSE LET w == WordPairAt(s, pos)
             fieldname == <<"adjective", ToString(w.adj), "-",
                            "noun", ToString(w.noun)>>
             gen == ValueGenerators[RawIntn(s[pos + 3], Len(ValueGenerators)) + 1]
         IN WithExtras(Put(fields, fieldname, gen), s, pos + 3, n - 1)

\* Variant: no cap.
MinFirst(a, b) == a

Min(a, b) == IF a < b THEN a ELSE b

\* A *Fielder as NewFielder returns it, with the position of the Rng its
\* generators share; or the error returned in its place.
Fielder(fields, names, keys, aps, ia, pos) ==
    [ok |-> TRUE, err |-> NoError, panic |-> FALSE,
     fields |-> fields, names |-> names, keys |-> keys,
     attributesPerSpan |-> aps, intrinsicAttributes |-> ia, pos |-> pos]
NoFielder(err, panic) ==
    [ok |-> FALSE, err |-> err, panic |-> panic,
     fields |-> <<>>, names |-> <<>>, keys |-> <<>>,
     attributesPerSpan |-> 0, intrinsicAttributes |-> 0, pos |-> 0]

\* The streams that agree with s and give an outcome at each of the
\* positions too: the outcomes of a seed that the run has not looked at yet
\* may be any.
Reveal(s, positions) ==
    {[p \in DOMAIN s \cup positions |-> IF p \in DOMAIN s THEN s[p] ELSE t[p]] :
        t \in [positions \ DOMAIN s -> Raws]}

\* The positions of the stream one call of the generator looks at when its
\* Rng has made pos calls: the call's own, and a list's words. In a list of
\* one word rng.Intn(1) is 0 whatever the outcome.
Reads(g, pos) ==
    IF g.fn = "Choice" /\ g.a > 0
      THEN (IF g.a = 1 THEN {} ELSE {pos + 1}) \cup ((g.at + 1)..(g.at + 2 * g.a))
      ELSE (pos + 1)..(pos + CallDraws(g))

\* Calling f.fields[key]() for the keys of visit, in this order, that belong
\* to the level: the attributes collected (under the names without their
\* level markers, from being the key of f.keys) and the Rng's position.
RECURSIVE CallEach(_, _, _, _, _)
CallEach(f, visit, level, s, acc) ==
    IF visit = <<>> THEN acc
    ELSE LET key == Head(visit)
             k == atLevel(key, level)
         IN IF ~k[2] THEN CallEach(f, Tail(visit), level, s, acc)
            ELSE CallEach(f, Tail(visit), level, s,
                    [attrs |-> Append(acc.attrs,
                                  [key |-> k[1], from |-> key,
                                   value |-> Invoke(f.fields[key], s, acc.pos)]),
                     pos |-> acc.pos + CallDraws(f.fields[key])])

\* The positions of the stream those calls look at.
RECURSIVE ReadEach(_, _, _, _)
ReadEach(f, visit, level, pos) ==
    IF visit = <<>> THEN {}
    ELSE IF ~atLevel(Head(visit), level)[2]
      THEN ReadEach(f, Tail(visit), level, pos)
      ELSE Reads(f.fields[Head(visit)], pos)
             \cup ReadEach(f, Tail(visit), level,
                           pos + CallDraws(f.fields[Head(visit)]))

\* The map that fields[k] = v, for the attributes in order, makes of fields.
RECURSIVE Assign(_, _)
Assign(fields, attrs) ==
    IF attrs = <<>> THEN fields
    ELSE Assign(Put(fields, Head(attrs).key, Head(attrs).value), Tail(attrs))

\* The keys of visit without those processedKeys holds when their turn comes.
RECURSIVE Unprocessed(_, _)
Unprocessed(visit, processedKeys) ==
    IF visit = <<>> THEN <<>>
    ELSE IF Head(visit) \in processedKeys
      THEN Unprocessed(Tail(visit), processedKeys)
      ELSE <<Head(visit)>> \o Unprocessed(Tail(visit), processedKeys \cup {Head(visit)})

CountName == <<"count">>

\* What an operation on the Fielders left: the map GetFields returned, the
\* attributes AddFields set on the span, or the values that the same
\* generator of two Fielders returned.
Outcome(op, count, level, fields, attrs, values, alike) ==
    [op |-> op, count |-> count, level |-> level, fields |-> fields,
     attrs |-> attrs, values |-> values, alike |-> alike]

\* What a call of AddFields on fielders[i] left: the attributes set on the span, the start
\* of the block and the keys of the block it took from candidateRandomKeys,
\* or a panic that ended it.
Added(i, count, level, attrs, start, block, panic) ==
    [op |-> "AddFields", by |-> i, count |-> count, level |-> level, fields |-> <<>>,
     attrs |-> attrs, values |-> <<>>, alike |-> FALSE,
     start |-> start, block |-> block, panic |-> panic]

\* Variant: the loop over the intrinsic keys stops one key early.
IntrinsicKeysButLast(f) == SubSeq(f.keys, 1, f.intrinsicAttributes - 1)

\* for i := 0; i < f.intrinsicAttributes; i++ { key := f.keys[i] ... }: the
\* keys the first loop of AddFields visits.
IntrinsicKeys(f) == SubSeq(f.keys, 1, f.intrinsicAttributes)

\* ------------------------------------------- Fielders at work

MaxAttrs == 2
MaxLevel == 2
MaxOps == 1

\* The count and the level that the senders pass: the trace's count with
\* level 0 for a root span, no count for a child span.
Arguments == {<<7, 0>>} \cup {<<0, level>> : level \in 0..MaxLevel}

\* Whether every user field is a constant.
Constants(userfields) == \A name \in DOMAIN userfields : constfield(userfields[name])

\* The user fields tried: none, a field with and without a level marker
\* under one name, fields of different levels, two lists of words, which draw
\* from the Rng while they are built, and a field that does not parse.
UserFieldSets ==
    {[name \in {} |-> <<>>],
     [name \in {<<"f">>, <<"1", ".", "f">>} |->
        IF name = <<"f">> THEN <<"1", "0">> ELSE <<"1", "1">>],
     [name \in {<<"0", "2", ".", "g">>, <<"h">>} |->
        IF name = <<"h">> THEN <<"t", "r", "u", "e">> ELSE <<"5">>],
     [name \in {<<"a">>, <<"b">>} |-> <<"/", "s", "w", "1">>],
     [name \in {<<"a">>} |-> <<"/", "z", "5">>]}

\* The arguments of NewFielder tried, with extra fields and service names
\* where there are no user fields, and attributes per span where there are
\* constants; the seed is the stream.
InitFielder ==
    /\ userFields \in UserFieldSets
    /\ stream = <<>>
    /\ nextras \in IF DOMAIN userFields = {} THEN {0, 1} ELSE {0}
    /\ nservices \in IF DOMAIN userFields = {} THEN {0, 1} ELSE {0}
    /\ attributesPerSpan \in
          IF DOMAIN userFields # {} /\ Constants(userFields) THEN 0..MaxAttrs ELSE {0}
    /\ intrinsicAttributes \in
          IF DOMAIN userFields # {} /\ Constants(userFields) THEN 0..MaxAttrs ELSE {0}
    /\ parsed = <<>>
    /\ fielders = <<>>
    /\ out = <<>>
    /\ calls = 0
    /\ ControllerIdle
    /\ TraceIdle
    /\ duration = 0
    /\ RngIdle
    /\ DrawsIdle

\* NewFielder(seed, userFields, nextras, nservices, attributesPerSpan,
\* intrinsicAttributes), called twice with the same arguments: the range
\* over userFields in parseUserFields and the
\* range over fields that fills keys each yield the names in some order.
NewFielder ==
    /\ Len(fielders) < 2
    /\ \E order \in Orders(DOMAIN userFields) :
       \E r \in {parseUserFields(0, userFields, order)} :
          IF r.panic
            THEN /\ fielders' = Append(fielders, NoFielder(NoError, TRUE))
                 /\ stream' = stream
          ELSE IF r.err.msg # ""
            THEN /\ fielders' = Append(fielders, NoFielder(r.err, FALSE))
                 /\ stream' = stream
          ELSE \E s \in Reveal(stream, (r.pos + 1)..(r.pos + 3 * nextras)) :
               \E fields \in {Put(WithExtras(r.fields, s, r.pos, nextras),
                                  ProcessIdName, Const(VInt(Pid)))} :
               \E keys \in Orders(DOMAIN fields) :
                  LET pos == r.pos + 3 * nextras
                      names == [i \in 1..nservices |-> pos + i]
                      validAttributesPerSpan ==
                          Min(attributesPerSpan, Cardinality(DOMAIN fields))
                      validIntrinsicAttributes ==
                          Min(intrinsicAttributes, validAttributesPerSpan)
                  IN /\ fielders' = Append(fielders,
                            Fielder(fields, names, keys, validAttributesPerSpan,
                                    validIntrinsicAttributes, pos + nservices))
                     /\ stream' = s
    /\ UNCHANGED <<svars, rvars, cvars, tvars, userFields, nextras, nservices, attributesPerSpan,
                   intrinsicAttributes, parsed, out, calls>>

\* fielders[i].GetFields(count, level): the range over f.fields yields the
\* names in some order, and a later name overwrites an equal earlier one.
GetFields(i, count, level) ==
    /\ fielders[i].ok
    /\ calls < MaxOps
    /\ LET f == fielders[i]
       IN \E order \in Orders(DOMAIN f.fields) :
          \E s \in Reveal(stream, ReadEach(f, order, level, f.pos)) :
             LET r == CallEach(f, order, level, s,
                               [attrs |-> <<>>, pos |-> f.pos])
                 fields == IF count # 0 THEN Put(<<>>, CountName, VInt(count))
                           ELSE <<>>
             IN /\ stream' = s
                /\ fielders' = [fielders EXCEPT ![i].pos = r.pos]
                /\ out' = <<Outcome("GetFields", count, level,
                                    Assign(fields, r.attrs), <<>>, <<>>, FALSE)>>
    /\ calls' = calls + 1
    /\ UNCHANGED <<svars, rvars, cvars, tvars, userFields, nextras, nservices, attributesPerSpan,
                   intrinsicAttributes, parsed>>

\* fielders[i].AddFields(span, count, level): the attributes set on the span.
\* The first intrinsicAttributes keys, then a block of the other keys that
\* starts where the global rand.Intn says. The slice
\* f.keys[f.intrinsicAttributes:] panics when intrinsicAttributes is negative.
AddFields(i, count, level) ==
    /\ fielders[i].ok
    /\ calls < MaxOps
    /\ LET f == fielders[i]
           numAdditionalRandomFields == f.attributesPerSpan - f.intrinsicAttributes
           attrs == IF count # 0
                      THEN <<[key |-> CountName, from |-> CountName,
                              value |-> VInt(count)]>>
                      ELSE <<>>
       IN IF numAdditionalRandomFields > 0 /\ f.intrinsicAttributes < 0
            THEN /\ out' = <<Added(i, count, level, attrs, 0, <<>>, TRUE)>>
                 /\ UNCHANGED <<stream, fielders>>
            ELSE
              LET candidateRandomKeys ==
                      IF numAdditionalRandomFields > 0
                         /\ f.intrinsicAttributes < Len(f.keys)
                        THEN SubSeq(f.keys, f.intrinsicAttributes + 1, Len(f.keys))
                        ELSE <<>>
                  effectiveNumAdditionalRandom ==
                      Min(numAdditionalRandomFields, Len(candidateRandomKeys))
                  starts ==
                      IF Len(candidateRandomKeys) > 0
                         /\ Len(candidateRandomKeys) > effectiveNumAdditionalRandom
                        THEN 0..(Len(candidateRandomKeys) - effectiveNumAdditionalRandom)
                        ELSE {0}
              IN \E startRandom \in starts :
                    LET block == IF Len(candidateRandomKeys) > 0
                                   THEN SubSeq(candidateRandomKeys, startRandom + 1,
                                               startRandom + effectiveNumAdditionalRandom)
                                   ELSE <<>>
                        visit == Unprocessed(IntrinsicKeys(f) \o block, {})
                    IN \E s \in Reveal(stream, ReadEach(f, visit, level, f.pos)) :
                          LET r == CallEach(f, visit, level, s,
                                       [attrs |-> attrs, pos |-> f.pos])
                          IN /\ stream' = s
                             /\ fielders' = [fielders EXCEPT ![i].pos = r.pos]
                             /\ out' = <<Added(i, count, level, r.attrs, startRandom,
                                               block, FALSE)>>
    /\ calls' = calls + 1
    /\ UNCHANGED <<svars, rvars, cvars, tvars, userFields, nextras, nservices, attributesPerSpan,
                   intrinsicAttributes, parsed>>

\* One call f.fields[name]() of the same generator of the two Fielders, each
\* on its own Rng of the same seed; alike says that the two had been driven
\* by the same calls until then, no other than such calls having been made.
Drive(name) ==
    /\ calls < MaxOps
    /\ \E s \in Reveal(stream, Reads(fielders[1].fields[name], fielders[1].pos)
                                 \cup Reads(fielders[2].fields[name], fielders[2].pos)) :
          /\ stream' = s
          /\ out' = <<Outcome("Drive", 0, 0, <<>>, <<>>,
                        <<Invoke(fielders[1].fields[name], s, fielders[1].pos),
                          Invoke(fielders[2].fields[name], s, fielders[2].pos)>>,
                        IF out = <<>> THEN TRUE
                        ELSE out[1].op = "Drive" /\ out[1].alike)>>
    /\ fielders' = [i \in DOMAIN fielders |->
                      [fielders[i] EXCEPT
                          !.pos = @ + CallDraws(fielders[i].fields[name])]]
    /\ calls' = calls + 1
    /\ UNCHANGED <<svars, rvars, cvars, tvars, userFields, nextras, nservices, attributesPerSpan,
                   intrinsicAttributes, parsed>>

NextFielder ==
    \/ NewFielder
    \/ \E i \in DOMAIN fielders, a \in Arguments : GetFields(i, a[1], a[2])
    \/ \E i \in DOMAIN fielders, a \in Arguments : AddFields(i, a[1], a[2])
    \/ /\ Len(fielders) = 2
       /\ fielders[1].ok
       /\ fielders[2].ok
       /\ \E name \in DOMAIN fielders[1].fields \cap DOMAIN fielders[2].fields :
             Drive(name)

SpecFielder == InitFielder /\ [][NextFielder]_vars

\* ------------------------------------------- claims on the Fielders

\* What the last operation on the Fielders left.
Left == out[1]

\* The names of the fields that the last GetFields or AddFields put on the
\* span.
FieldNames ==
    IF Left.op = "GetFields" THEN DOMAIN Left.fields
    ELSE {Left.attrs[k].key : k \in DOMAIN Left.attrs}

\* C12: every span that GetFields or AddFields has populated, whatever the
\* attributes per span, the intrinsic attributes, the order of the keys and
\* the start of the block, carries a field process_id.
C12_ProcessIdAlways ==
    IF out = <<>> THEN TRUE
    ELSE Left.op \in {"GetFields", "AddFields"} => ProcessIdName \in FieldNames

\* C13: two Fielders constructed from the same seed and the same field specs
\* and driven by the same calls return the same value from the same
\* generator.
C13_Determinism ==
    IF out = <<>> THEN TRUE
    ELSE (Left.op = "Drive" /\ Left.alike) => Left.values[1] = Left.values[2]

\* The keys AddFields treats as intrinsic.
Intrinsic(f) == {f.keys[i] : i \in 1..f.intrinsicAttributes}

\* C14: two Fielders built from the same seed, specs and counts have the same
\* sequence of keys and the same set of intrinsic keys.
C14_KeyOrderFixed ==
    (Len(fielders) = 2 /\ fielders[1].ok /\ fielders[2].ok)
        => /\ fielders[1].keys = fielders[2].keys
           /\ Intrinsic(fielders[1]) = Intrinsic(fielders[2])

\* Whether the map that GetFields returned holds the value of the constant
\* user field under its name without the level marker.
Holds(name) ==
    LET key == IF keysplitter(name) = <<>> THEN name ELSE keysplitter(name)[2]
    IN /\ key \in DOMAIN Left.fields
       /\ Left.fields[key] = getConst(userFields[name]).v

\* C15: the map GetFields(count, L) returns contains the value of a field
\* named <n>.name if and only if n = L, and the value of every field without
\* such a prefix, at every level L.
C15_LevelScoping ==
    IF out = <<>> THEN TRUE
    ELSE (Left.op = "GetFields" /\ Constants(userFields))
            => \A name \in DOMAIN userFields :
                  IF keysplitter(name) = <<>> THEN Holds(name)
                  ELSE Holds(name) <=> (DecVal(keysplitter(name)[1]) = Left.level)

\* ------------------------------------------- SpecAttrs: NewFielder, AddFields

\* The counts of attributes asked of NewFielder, which takes any int: less
\* than none, and up to more than the Fielder has fields.
AttrCounts == (-1)..MaxAttrs

\* NewFielder with constant user fields, with and without level markers, or
\* with none, and every pair of counts.
InitAttrs ==
    /\ userFields \in {u \in UserFieldSets : Constants(u)}
    /\ stream = <<>>
    /\ nextras = 0
    /\ nservices = 0
    /\ attributesPerSpan \in AttrCounts
    /\ intrinsicAttributes \in AttrCounts
    /\ parsed = <<>>
    /\ fielders = <<>>
    /\ out = <<>>
    /\ calls = 0
    /\ ControllerIdle
    /\ TraceIdle
    /\ duration = 0
    /\ RngIdle
    /\ DrawsIdle

NextAttrs ==
    \/ NewFielder
    \/ \E i \in DOMAIN fielders, a \in Arguments : AddFields(i, a[1], a[2])

SpecAttrs == InitAttrs /\ [][NextAttrs]_vars

\* ------------------------------------------- claims on the attributes (SpecAttrs)

\* The Fielder the last AddFields was called on.
Adder == fielders[Left.by]

\* The keys of the Fielder after its intrinsic ones.
Remainder(f) ==
    IF f.intrinsicAttributes <= 0 THEN f.keys
    ELSE SubSeq(f.keys, f.intrinsicAttributes + 1, Len(f.keys))

\* The attributes of the last AddFields other than count.
FieldAttrs == {k \in DOMAIN Left.attrs : Left.attrs[k].from # CountName}

\* C34: a call of AddFields ends without an index out of range, sets at most
\* attributesPerSpan attributes besides count, sets no key of the key list
\* twice, and takes its block of min(attributesPerSpan -
\* intrinsicAttributes, number of other keys) keys in one piece from within
\* the keys after the intrinsic ones.
C34_BlockWithinRemainder ==
    IF out = <<>> THEN TRUE
    ELSE Left.op = "AddFields"
          => /\ ~Left.panic
             /\ Cardinality(FieldAttrs) <= Adder.attributesPerSpan
                \/ (Adder.attributesPerSpan < 0 /\ FieldAttrs = {})
             /\ \A k, l \in FieldAttrs :
                   Left.attrs[k].from = Left.attrs[l].from => k = l
             /\ LET rest == Remainder(Adder)
                    n == Min(Adder.attributesPerSpan - Adder.intrinsicAttributes,
                             Len(rest))
                IN /\ Left.start >= 0
                   /\ Left.start + n <= Len(rest)
                   /\ Left.block = SubSeq(rest, Left.start + 1, Left.start + n)
                   /\ \A k \in FieldAttrs :
                         \/ \E j \in 1..Adder.intrinsicAttributes :
                               Left.attrs[k].from = Adder.keys[j]
                         \/ \E j \in DOMAIN Left.block :
                               Left.attrs[k].from = Left.block[j]

\* Whether the last AddFields set the key of the key list on the span.
Carries(key) == \E k \in DOMAIN Left.attrs : Left.attrs[k].from = key

\* C35: a span that AddFields has populated, at any level and for any start
\* of the block, carries every one of the first intrinsicAttributes keys of
\* the key list.
C35_IntrinsicOnEverySpan ==
    IF out = <<>> THEN TRUE
    ELSE (Left.op = "AddFields" /\ ~Left.panic)
          => \A j \in 1..Adder.intrinsicAttributes : Carries(Adder.keys[j])

\* C35, amended: the span carries, under its name without the level marker,
\* every one of the first intrinsicAttributes keys that has no level marker
\* or the marker of the span's level, and none of them that has the marker
\* of another level, for any start of the block.
C35_IntrinsicOfTheLevel ==
    IF out = <<>> THEN TRUE
    ELSE (Left.op = "AddFields" /\ ~Left.panic)
          => \A j \in 1..Adder.intrinsicAttributes :
                LET key == Adder.keys[j]
                IN IF atLevel(key, Left.level)[2]
                     THEN \E k \in DOMAIN Left.attrs :
                             /\ Left.attrs[k].from = key
                             /\ Left.attrs[k].key = atLevel(key, Left.level)[1]
                     ELSE ~Carries(key)

\* C35's case: a span of level 1 populated by a Fielder whose one intrinsic
\* key is marked for level 1, with a block that does not start at the first
\* of the other keys.
C35_Witness ==
    /\ out # <<>>
    /\ Left.op = "AddFields"
    /\ ~Left.panic
    /\ Left.level = 1
    /\ Adder.intrinsicAttributes = 1
    /\ Adder.keys[1] = <<"1", ".", "f">>
    /\ Carries(Adder.keys[1])
    /\ Left.start > 0

\* C36: a Fielder that NewFielder returned, whatever counts were asked for,
\* has intrinsicAttributes <= attributesPerSpan <= the number of its fields,
\* and at least one field, process_id.
C36_CountsCapped ==
    \A i \in DOMAIN fielders :
        fielders[i].ok
            => /\ fielders[i].intrinsicAttributes <= fielders[i].attributesPerSpan
               /\ fielders[i].attributesPerSpan <= Cardinality(DOMAIN fielders[i].fields)
               /\ Cardinality(DOMAIN fielders[i].fields) >= 1
               /\ ProcessIdName \in DOMAIN fielders[i].fields

\* C36's case: more attributes per span were asked for than the Fielder has
\* fields, and more intrinsic attributes than that.
C36_Witness ==
    /\ fielders # <<>>
    /\ fielders[1].ok
    /\ attributesPerSpan > Cardinality(DOMAIN fielders[1].fields)
    /\ intrinsicAttributes > fielders[1].intrinsicAttributes
    /\ fielders[1].intrinsicAttributes = fielders[1].attributesPerSpan

\* ------------------------------------------- SpecRng: the Rng's choices

\* Longest list QuadraticChoice is tried on.
MaxListLen == 5
\* Longest period tried, in the unit of time.Duration, and most words.
MaxPeriod == 4
MaxWords == 3

\* Variant: a window in proportion to the words that remain after this one.
PeriodAfter(i, n, per, u) ==
    LET periodLength == RatTrunc(Rat(per * (n - i - 1), n))
        startTime == (per - periodLength) * RatTrunc(u)
    IN [word |-> i, start |-> startTime, end |-> startTime + periodLength]

\* newPeriodicEligibility's periods[i] for word i of n, the period per and
\* the draw u of rng.Float(0, 1): time.Duration(u) converts the float to an
\* integer. The word is named by its index in nouns.
PeriodOf(i, n, per, u) ==
    LET periodLength == RatTrunc(Rat(per * (n - i), n))
        startTime == (per - periodLength) * RatTrunc(u)
    IN [word |-> i, start |-> startTime, end |-> startTime + periodLength]

\* The indexes getEligibleWordFallback collects for tInPeriod, in order.
RECURSIVE EligibleIndexes(_, _, _)
EligibleIndexes(ps, i, tInPeriod) ==
    IF i > Len(ps) THEN <<>>
    ELSE (IF ps[i].start <= tInPeriod /\ tInPeriod < ps[i].end
            THEN <<i>> ELSE <<>>) \o EligibleIndexes(ps, i + 1, tInPeriod)

\* Either a list to choose from or a period and words for an eligibility.
InitRng ==
    /\ \/ /\ listLen \in 1..MaxListLen
          /\ pePeriod = 0
          /\ nwords = 0
       \/ /\ listLen = 0
          /\ pePeriod \in 1..MaxPeriod
          /\ nwords \in 1..MaxWords
    /\ drawn = 0
    /\ picks = <<>>
    /\ periods = <<>>
    /\ word = <<>>
    /\ DrawsIdle
    /\ ControllerIdle
    /\ TraceIdle
    /\ FielderIdle
    /\ duration = 0

\* rng.QuadraticChoice(a) on the next of the draws r.rng.Float64() =
\* k / (UnitSteps * len(a)^2), taken in increasing order: rn is k / UnitSteps.
CallQuadraticChoice ==
    /\ listLen > 0
    /\ drawn < UnitSteps * listLen * listLen
    /\ LET choice == QuadraticChoice(listLen, Rat(drawn, UnitSteps))
       IN picks' = [j \in DOMAIN picks \cup {choice} |->
                      (IF j \in DOMAIN picks THEN picks[j] ELSE 0)
                        + (IF j = choice THEN 1 ELSE 0)]
    /\ drawn' = drawn + 1
    /\ UNCHANGED <<svars, cvars, tvars, fvars, listLen, pePeriod, nwords, periods, word>>

\* pe := newPeriodicEligibility(rng, nouns[:nwords], period).
NewPeriodicEligibility ==
    /\ nwords > 0
    /\ periods = <<>>
    /\ \E u \in [1..nwords -> UnitDraws] :
          periods' = [i \in 1..nwords |-> PeriodOf(i - 1, nwords, pePeriod, u[i])]
    /\ UNCHANGED <<svars, cvars, tvars, fvars, listLen, drawn, picks, pePeriod, nwords, word>>

\* pe.getEligibleWordFallback(durationSinceStart): a word among the eligible
\* ones, the first word when none is.
GetEligibleWordFallback(durationSinceStart) ==
    /\ periods # <<>>
    /\ LET tInPeriod == durationSinceStart % pePeriod
           eligibleIndexes == EligibleIndexes(periods, 1, tInPeriod)
       IN IF Len(eligibleIndexes) = 0
            THEN word' = <<[t |-> durationSinceStart, ix |-> 1,
                            word |-> periods[1].word,
                            by |-> "getEligibleWordFallback", probes |-> 0,
                            scans |-> 1]>>
            ELSE \E k \in Intn(Len(eligibleIndexes)) :
                    word' = <<[t |-> durationSinceStart, ix |-> eligibleIndexes[k + 1],
                               word |-> periods[eligibleIndexes[k + 1]].word,
                               by |-> "getEligibleWordFallback", probes |-> 0,
                               scans |-> 1]>>
    /\ UNCHANGED <<svars, cvars, tvars, fvars, listLen, drawn, picks, pePeriod, nwords, periods>>

\* The random probes of getEligibleWord: for i := 0; i < 5; i++.
Probes == 5

\* Variant: a window that holds its end.
WithinOrAtEnd(p, tInPeriod) == p.start <= tInPeriod /\ tInPeriod <= p.end

\* period.start <= tInPeriod && tInPeriod < period.end
Within(p, tInPeriod) == p.start <= tInPeriod /\ tInPeriod < p.end

\* The indexes getEligibleWordFallback may return for tInPeriod.
FallbackIndexes(ps, tInPeriod) ==
    LET eligibleIndexes == EligibleIndexes(ps, 1, tInPeriod)
    IN IF Len(eligibleIndexes) = 0 THEN {1}
       ELSE {eligibleIndexes[k + 1] : k \in Intn(Len(eligibleIndexes))}

\* pe.getEligibleWord(durationSinceStart): the draws of pe.rng.Intn in the
\* order of the probes; the first probe that finds an eligible word returns
\* it, and after the last probe the fallback is called. probes counts the
\* draws made, scans the calls of the fallback.
GetEligibleWord(durationSinceStart) ==
    /\ periods # <<>>
    /\ \E draws \in [1..Probes -> Intn(Len(periods))] :
          LET tInPeriod == durationSinceStart % pePeriod
              hits == {i \in 1..Probes : Within(periods[draws[i] + 1], tInPeriod)}
          IN IF hits # {}
               THEN LET first == CHOOSE i \in hits : \A j \in hits : i <= j
                    IN word' = <<[t |-> durationSinceStart, ix |-> draws[first] + 1,
                                  word |-> periods[draws[first] + 1].word,
                                  by |-> "getEligibleWord", probes |-> first,
                                  scans |-> 0]>>
               ELSE \E ix \in FallbackIndexes(periods, tInPeriod) :
                       word' = <<[t |-> durationSinceStart, ix |-> ix,
                                  word |-> periods[ix].word,
                                  by |-> "getEligibleWord", probes |-> Probes,
                                  scans |-> 1]>>
    /\ UNCHANGED <<svars, cvars, tvars, fvars, listLen, drawn, picks, pePeriod, nwords, periods>>

NextRng ==
    \/ CallQuadraticChoice
    \/ NewPeriodicEligibility
    \/ \E t \in 0..(2 * pePeriod) : GetEligibleWordFallback(t)
    \/ \E t \in 0..(2 * pePeriod) : GetEligibleWord(t)

SpecRng == InitRng /\ [][NextRng]_vars

\* ------------------------------------------- claims on the Rng (SpecRng)

\* C22: for a period P > 0 and N >= 1 words every eligibility window lies
\* within [0, P], every instant of [0, P) is in at least one window, and the
\* word getEligibleWordFallback returns is one of the words and is eligible
\* at the instant it was asked for.
C22_EligibilityCovers ==
    /\ \A i \in DOMAIN periods :
          /\ 0 <= periods[i].start
          /\ periods[i].start <= periods[i].end
          /\ periods[i].end <= pePeriod
    /\ periods # <<>> =>
          \A t \in 0..(pePeriod - 1) :
              \E i \in DOMAIN periods : periods[i].start <= t /\ t < periods[i].end
    /\ \A k \in DOMAIN word :
          /\ word[k].word \in 0..(nwords - 1)
          /\ periods[word[k].ix].word = word[k].word
          /\ periods[word[k].ix].start <= word[k].t % pePeriod
          /\ word[k].t % pePeriod < periods[word[k].ix].end

\* C22's case: of three words the last, whose window is the shortest, was
\* returned for an instant one whole period after the start.
C22_Witness ==
    /\ nwords = 3
    /\ word # <<>>
    /\ word[1].t = pePeriod
    /\ word[1].word = 2

\* How many of the calls chose the index.
Chosen(j) == IF j \in DOMAIN picks THEN picks[j] ELSE 0

\* C23: QuadraticChoice on a list of L >= 1 elements chooses no index
\* outside [0, L), and of the draws of [0, L*L) the number that choose index
\* j decreases strictly from index 0 to index L-1.
C23_QuadraticBias ==
    /\ DOMAIN picks \subseteq 0..(listLen - 1)
    /\ drawn = UnitSteps * listLen * listLen
          => \A j \in 0..(listLen - 2) : Chosen(j) > Chosen(j + 1)

\* C23's case: every draw on a list of three has been made; five ninths of
\* them chose index 0 and one ninth index 2.
C23_Witness ==
    /\ listLen = 3
    /\ drawn = UnitSteps * 9
    /\ Chosen(0) = UnitSteps * 5
    /\ Chosen(2) = UnitSteps

\* The words that getEligibleWord returned.
Got == {k \in DOMAIN word : word[k].by = "getEligibleWord"}

MaxDraws == 3

\* The random sources of a run: the *rand.Rand that NewRng makes, once for
\* the Fielder, and the source behind math/rand's top-level functions.
Sources == {"seeded", "global"}

\* math/rand's top-level functions lock their source; a *rand.Rand made by
\* rand.New has no lock.
Locked(s) == s = "global"

\* What a worker calls while it adds fields to a span: a value generator
\* (rng.Int), the key generator's scheduler (pe.rng.Intn in getEligibleWord)
\* and the start of the block of random keys (rand.Intn in AddFields).
Draws == {"int", "key", "start"}

\* The source a draw advances. Rng holds a pointer and is passed by value:
\* parseUserFields, every generator closure and newPeriodicEligibility's
\* pe.rng all hold the pointer NewFielder made.
SourceOf(g) == IF g = "start" THEN "global" ELSE "seeded"

\* The workers inside a draw on the source.
Inside(s) == {w \in Workers : inCall[w].pc = "inside" /\ SourceOf(inCall[w].gen) = s}

NotInCall == [pc |-> "idle", gen |-> "", seen |-> 0]

\* The generator's workers share s.fielder; all sources are fresh.
InitDraws ==
    /\ source = [s \in Sources |-> 0]
    /\ inCall = [w \in Workers |-> NotInCall]
    /\ RngIdle
    /\ ControllerIdle
    /\ TraceIdle
    /\ FielderIdle
    /\ duration = 0

\* A worker enters a draw and reads the source's state; on a locked source
\* it waits for the lock first.
BeginDraw(w, g) ==
    /\ inCall[w].pc = "idle"
    /\ source[SourceOf(g)] < MaxDraws
    /\ Locked(SourceOf(g)) => Inside(SourceOf(g)) = {}
    /\ inCall' = [inCall EXCEPT ![w] = [pc |-> "inside", gen |-> g,
                                        seen |-> source[SourceOf(g)]]]
    /\ UNCHANGED <<source, cvars, tvars, fvars, rvars>>

\* The worker writes the advanced state back and leaves the draw. When
\* another worker wrote or is writing the same source meanwhile the two
\* updates are a data race, which leaves the source in any state.
EndDraw(w) ==
    /\ inCall[w].pc = "inside"
    /\ LET s == SourceOf(inCall[w].gen)
           raced == Inside(s) # {w} \/ source[s] # inCall[w].seen
       IN  IF raced
             THEN \E n \in 0..MaxDraws : source' = [source EXCEPT ![s] = n]
             ELSE source' = [source EXCEPT ![s] = inCall[w].seen + 1]
    /\ inCall' = [inCall EXCEPT ![w] = NotInCall]
    /\ UNCHANGED <<cvars, tvars, fvars, rvars>>

NextDraws ==
    \/ \E w \in Workers, g \in Draws : BeginDraw(w, g)
    \/ \E w \in Workers : EndDraw(w)

SpecDraws == InitDraws /\ [][NextDraws]_vars

\* C38: when several workers populate spans at the same time no two of them
\* are inside a draw on the same random source at once, and the source the
\* key generator's scheduler draws from is one that no other generator
\* draws from.
C38_DrawsSynchronized ==
    /\ \A w \in DOMAIN inCall, v \in DOMAIN inCall :
          (/\ w # v
           /\ inCall[w].pc = "inside"
           /\ inCall[v].pc = "inside")
             => SourceOf(inCall[w].gen) # SourceOf(inCall[v].gen)
    /\ \A w \in DOMAIN inCall :
          (inCall[w].pc = "inside" /\ inCall[w].gen = "key")
             => \A g \in Draws \ {"key"} : SourceOf(g) # SourceOf("key")

====
